---- MODULE Spec2Model ----
(***************************************************************************)
(* A model of translate/seq2seq_model.py: the beam-search decoder          *)
(* (Seq2SeqModel.beam_search_decoding) and the batch builder               *)
(* (Seq2SeqModel.get_batch), with the one decoder step of                  *)
(* translate/decoders.py (attention_decoder._time_step) that each beam     *)
(* step runs.                                                              *)
(*                                                                         *)
(* Numbers.  Probabilities are multiples of 1/ProbDenom.  A score is a     *)
(* negative log-likelihood in fixed point: one bit of surprise is Unit,    *)
(* and Unit is divisible by every count an average divides by, so that     *)
(* every mean is exact.  Inf is the float +inf that -log(0) yields.  The   *)
(* code subtracts an average of log-probabilities; the model adds the      *)
(* same average of their negations.                                        *)
(*                                                                         *)
(* The network is not modelled: what a session returns for a row is an     *)
(* input of the step, any probability vector of Dists.  The recurrent      *)
(* state is symbolic: the sequence of the tokens the cell has consumed.    *)
(***************************************************************************)
EXTENDS Integers, Sequences, FiniteSets, TLC

\* ------------------------------------------------------------- bounds
MaxBeam == 2
VocabSize == 3
MaxSessions == 2
MaxWork == 4
MaxOutputLen == 2
MaxEncoders == 2
MaxLenNormalization == 1
ScenarioLen == 3
MaxSentences == 4
MaxSentenceLen == 2
MaxAttnLen == 3
MaxWindow == 1
MaxTimeSteps == 2
MaxPasses == 2
MaxDropoutRate == 1
MaxUpdates == 2
MaxBleuLen == 4
MaxBatch == 2
MaxCellSize == 3

\* ---------------------------------------------------------- constants
EOS_ID == 1
BOS_ID == 2
ProbDenom == 4
Inf == -1
NoneValue == <<>>

Tokens == 0 .. (VocabSize - 1)

\* ------------------------------------------------------------ helpers
RECURSIVE Factorial(_)
Factorial(n) == IF n <= 1 THEN 1 ELSE n * Factorial(n - 1)

Unit == Factorial(MaxSessions + 1)

RECURSIVE Pow(_, _)
Pow(b, e) == IF e = 0 THEN 1 ELSE b * Pow(b, e - 1)

Min(a, b) == IF a <= b THEN a ELSE b

Max(a, b) == IF a >= b THEN a ELSE b

RECURSIVE SumSeq(_)
SumSeq(s) == IF s = <<>> THEN 0 ELSE Head(s) + SumSeq(Tail(s))

\* float arithmetic with +inf
Add(a, b) == IF a = Inf \/ b = Inf THEN Inf ELSE a + b

Leq(a, b) == b = Inf \/ (a # Inf /\ a <= b)

Less(a, b) == ~Leq(b, a)

\* a quotient score / length kept as the pair <<numerator, denominator>>
FracLeq(x, y) ==
    IF y[1] = Inf THEN TRUE
    ELSE IF x[1] = Inf THEN FALSE
    ELSE x[1] * y[2] <= y[1] * x[2]

\* the probability vectors a softmax over the vocabulary can return
Dists == {d \in [Tokens -> {0, 1, 2, 4}] :
            SumSeq([t \in 1 .. VocabSize |-> d[t - 1]]) = ProbDenom}

\* -np.log(p) of a probability p / ProbDenom
NegLog(p) ==
    CASE p = 4 -> 0
      [] p = 2 -> Unit
      [] p = 1 -> 2 * Unit
      [] OTHER -> Inf

\* np.argsort(xs)[:k], as 0-based indexes, of n values of which le[a][b]
\* tells whether the a-th is at most the b-th: the sort is not stable, so
\* any order of equal elements is a possible result
ArgsortTake(n, le, k) ==
    LET m == IF k < 0 THEN Max(n + k, 0) ELSE Min(k, n)
    IN  {s \in [1 .. m -> 0 .. (n - 1)] :
            /\ \A a, b \in 1 .. m : a < b => s[a] # s[b]
            /\ \A a \in 1 .. (m - 1) : le[s[a] + 1][s[a + 1] + 1]
            /\ \A j \in 0 .. (n - 1) :
                  (m > 0 /\ \A a \in 1 .. m : s[a] # j) => le[s[m] + 1][j + 1]}

\* the order of float scores, as ArgsortTake reads it
ScoreOrder(xs) == [a \in DOMAIN xs |-> [b \in DOMAIN xs |-> Leq(xs[a], xs[b])]]

\* the order of quotients
FracOrder(xs) == [a \in DOMAIN xs |-> [b \in DOMAIN xs |-> FracLeq(xs[a], xs[b])]]

\* ---------------------------------------------------------- get_batch
\* s[:k] of Python, k >= 0
Slice(s, k) == SubSeq(s, 1, Min(k, Len(s)))

Repeat(x, n) == [j \in 1 .. n |-> x]

MaxOf(S) == CHOOSE x \in S : \A y \in S : y <= x

PadMarker == 0 - 1

\* max_input_len=None of the constructor
Unset == 0 - 1

\* the pad element of an encoder's input: a zero vector for a binary
\* encoder, utils.EOS_ID otherwise
EncoderPad(binary, embedding_size) ==
    IF binary THEN Repeat(0, embedding_size) ELSE EOS_ID

DecoderInputLengthNoEnd(trg_sentence, decoding, self_max_output_len) ==
    IF decoding THEN self_max_output_len ELSE Len(trg_sentence)

\* decoder_input_length of one sample
DecoderInputLength(trg_sentence, decoding, self_max_output_len) ==
    IF decoding THEN self_max_output_len ELSE Len(trg_sentence) + 1

DecoderRowNoEnd(trg_sentence, decoding, max_output_len, self_max_output_len) ==
    IF decoding
    THEN <<BOS_ID>> \o Repeat(EOS_ID, self_max_output_len)
    ELSE <<BOS_ID>> \o trg_sentence
         \o Repeat(PadMarker, 1 + max_output_len - Len(trg_sentence))

\* the row of decoder_inputs of one sample, before the arrays are cut
DecoderRow(trg_sentence, decoding, max_output_len, self_max_output_len) ==
    IF decoding
    THEN <<BOS_ID>> \o Repeat(EOS_ID, self_max_output_len)
    ELSE <<BOS_ID>> \o trg_sentence \o <<EOS_ID>>
         \o Repeat(PadMarker, max_output_len - Len(trg_sentence))

WeightAlways(target) == 1

\* batch_weights = (batch_targets != -1)
Weight(target) == IF target # PadMarker THEN 1 ELSE 0

\* x[x == -1] = utils.EOS_ID
Unpad(x) == IF x = PadMarker THEN EOS_ID ELSE x

\* get_batch(data, decoding) of a model m; data is a non-empty sequence of
\* samples, a sample the sequence of its source sentences followed by its
\* target sentence.  The arrays of the decoder side are time-major.
GetBatch(data_, decoding, m) ==
    LET n == Len(data_)
        max_input_len ==
            [e \in 1 .. m.encoder_count |->
                LET len_ == MaxOf({Len(data_[b][e]) : b \in 1 .. n})
                IN  IF m.max_input_len # Unset THEN Min(len_, m.max_input_len) ELSE len_]
        max_output_len ==
            Min(MaxOf({Len(data_[b][Len(data_[b])]) : b \in 1 .. n}), m.max_output_len)
        src(b, e) == Slice(data_[b][e], max_input_len[e])
        trg(b) == Slice(data_[b][Len(data_[b])], max_output_len)
        rows == [b \in 1 .. n |-> DecoderRow(trg(b), decoding, max_output_len, m.max_output_len)]
        width == Len(rows[1])
        batch_targets == [t \in 1 .. (width - 1) |-> [b \in 1 .. n |-> rows[b][t + 1]]]
    IN  [encoder_inputs |->
            [e \in 1 .. m.encoder_count |->
                [b \in 1 .. n |->
                    src(b, e) \o Repeat(EncoderPad(m.binary[e], m.embedding_size),
                                        1 + max_input_len[e] - Len(src(b, e)))]],
         encoder_input_length |->
            [e \in 1 .. m.encoder_count |-> [b \in 1 .. n |-> Len(src(b, e)) + 1]],
         decoder_inputs |->
            [t \in 1 .. (width - 1) |-> [b \in 1 .. n |-> Unpad(rows[b][t])]],
         targets |->
            [t \in 1 .. (width - 1) |-> [b \in 1 .. n |-> Unpad(batch_targets[t][b])]],
         target_weights |->
            [t \in 1 .. (width - 1) |-> [b \in 1 .. n |-> Weight(batch_targets[t][b])]],
         decoder_input_length |->
            [b \in 1 .. n |-> DecoderInputLength(trg(b), decoding, m.max_output_len)]]

\* ---------------------------------------------------------- attention
\* the energies compute_energy can return for one source position
Energies == (0 - 1) .. 1

\* tf.exp of an energy between -2 and 1, in units of exp(-2), to base 2
Exp(x) == Pow(2, x + 2)

\* the sum of weights <<numerator, denominator>> whose denominators all
\* divide the greatest of them
FracSum(ws) ==
    LET den == MaxOf({ws[j][2] : j \in DOMAIN ws})
    IN  <<SumSeq([j \in 1 .. Len(ws) |-> ws[j][1] * (den \div ws[j][2])]), den>>

\* tf.sequence_mask(encoder_input_length, attn_length) at position j >= 1
SequenceMask(length, j) == IF j <= length THEN 1 ELSE 0

\* decoders.py 245-250: the weights of global_attention for one sample
GlobalAttention(e, encoder_input_length, attn_length) ==
    LET max_e == MaxOf({e[j] : j \in 1 .. attn_length})
        exp == [j \in 1 .. attn_length |->
                   Exp(e[j] - max_e) * SequenceMask(encoder_input_length, j)]
    IN  [j \in 1 .. attn_length |-> <<exp[j], SumSeq(exp)>>]

\* decoders.py 280-286: 1 inside the window around pt, 0 outside; idx is
\* the 0-based source position
WindowMask(idx, pt, attention_window_size) ==
    IF idx < pt - attention_window_size \/ idx > pt + attention_window_size THEN 0 ELSE 1

\* decoders.py 299-303: exp(-(idx - pt)^2 / sigma^2); the base
\* exp(-1 / sigma^2), a number strictly between 0 and 1, is taken as 1/2
Gaussian(idx, pt) == <<1, Pow(2, (idx - pt) * (idx - pt))>>

\* decoders.py 297-303: the weights of local_attention for one sample;
\* encoder_input_length is passed and not read
LocalAttention(e, pt, attention_window_size, attn_length) ==
    LET mask == [j \in 1 .. attn_length |-> WindowMask(j - 1, pt, attention_window_size)]
        exp == [j \in 1 .. attn_length |-> Exp(e[j] * mask[j])]
    IN  [j \in 1 .. attn_length |->
            <<exp[j] * Gaussian(j - 1, pt)[1], SumSeq(exp) * Gaussian(j - 1, pt)[2]>>]

\* decoders.py 308-317: attention of one encoder
Attention(a) ==
    IF a.attention_window_size > 0
    THEN LocalAttention(a.e, a.pt, a.attention_window_size, a.attn_length)
    ELSE GlobalAttention(a.e, a.encoder_input_length, a.attn_length)

\* ------------------------------------------- attention_decoder, a step
\* the values a logit takes
LogitValues == {0, 1}

\* the logits of one time step for one sample
Logits == [Tokens -> LogitValues]

\* tf.random_uniform([]), a number of [0, 1), in units of 1 / ProbDenom
Draws == 0 .. (ProbDenom - 1)

\* the values of feed_previous, in units of 1 / ProbDenom
FeedPreviousValues == {0, 2, ProbDenom}

BranchAnyStep(time_, time_steps, draw_, feed_previous_, feed_argmax_) ==
    IF draw_ >= feed_previous_ THEN "target"
    ELSE IF ~feed_argmax_ THEN "softmax"
    ELSE "argmax"

\* decoders.py 457-460: the case tf.case selects, the first whose
\* predicate holds
Branch(time_, time_steps, draw_, feed_previous_, feed_argmax_) ==
    IF time_ < time_steps - 1 /\ draw_ >= feed_previous_ THEN "target"
    ELSE IF ~feed_argmax_ THEN "softmax"
    ELSE "argmax"

\* what inputs.read(k) returns, k counted from 0; a read past the end of
\* the TensorArray fails, which OutOfRange, no token id, stands for
OutOfRange == 0 - 2

ReadInputBefore(inputs_, k) == IF k < Len(inputs_) /\ k > 0 THEN inputs_[k] ELSE OutOfRange

ReadInput(inputs_, k) == IF k < Len(inputs_) THEN inputs_[k + 1] ELSE OutOfRange

\* decoders.py 452-455: the tokens a case can return; the softmax of
\* finite logits gives every token a positive probability
SampleOf(branch_, logits, inputs_, time_) ==
    CASE branch_ = "target" -> {ReadInput(inputs_, time_ + 1)}
      [] branch_ = "softmax" -> Tokens
      [] OTHER -> {t \in Tokens : \A u \in Tokens : logits[u] <= logits[t]}

\* decoders.py 471-483, rnn._rnn_step with skip_conditionals: the cell
\* advances the rows whose sequence is not over, the others keep their state
RnnStep(time_, sequence_length_, state_, sample) ==
    IF time_ < sequence_length_ THEN Append(state_, sample) ELSE state_

\* np.argmax of one row of logits (seq2seq_model.py 356): the first of
\* the greatest
NpArgMax(logits) ==
    CHOOSE t \in Tokens :
        /\ \A u \in Tokens : logits[u] <= logits[t]
        /\ \A u \in Tokens : logits[u] = logits[t] => t <= u

\* ------------------------------------------------------------- state
VARIABLES
    model,                \* the fields of self the operations read
    pc,                   \* position of the running call
    session,              \* len(session): the models of the ensemble
    beam_width,           \* beam_size as the caller passed it
    beam_size,            \* beam_size, decremented as hypotheses finish
    step,                 \* iterations of the step loop completed
    i,                    \* the loop variable i, as line 409 reads it
    hypotheses,           \* the live hypotheses
    scores,               \* their cumulative scores
    state,                \* state[s][k]: recurrent state of row k in session s
    output,               \* output[s][k]: output snapshot, NoneValue at first
    decoder_input,        \* the token fed for each row
    decoder_output,       \* decoder_output[s][k]: distribution of session s, row k
    scores_,              \* the flattened candidate scores of the last step
    flat_ids,             \* the candidates the last step selected
    finished_hypotheses,
    finished_scores,
    result,               \* <<hypotheses, scores>> as returned, NoneValue before
    data,                 \* the argument of get_batch
    decoding,             \* its flag
    batch,                \* what get_batch returned
    attn_args,            \* the inputs of one attention call, for one sample
    attn_weights,         \* the weights it returned, NoneValue before
    call,                 \* the method of Seq2SeqModel that runs
    dropout,              \* the keep probability variable of each session
    feed_previous,        \* feed_previous as the forward pass reads it
    feed_argmax,          \* the parameter of attention_decoder
    inputs,               \* decoder_inputs of the one sample, time-major
    sequence_length,      \* decoder_input_length of the sample
    time,                 \* the loop variable of the decoder
    input_,               \* the token whose embedding the step is fed
    dec_state,            \* the recurrent state of the decoder
    samples,              \* the TensorArray of the tokens selected
    proj_outputs,         \* the TensorArray of the logits
    draw,                 \* the uniform draw of the last time step
    branch,               \* the case the last time step selected
    net,                  \* the logits the parameters give, where computed
    greedy,               \* what greedy_decoding returned, NoneValue before
    global_step,          \* self.global_step
    params,               \* the model parameters: the updates applied to them
    accumulators,         \* the updates the optimizer's accumulators have seen
    baseline_params,      \* the parameters of reward_baseline, likewise
    update_model,         \* the flags of the last training call
    update_baseline,
    fetches,              \* the keys of the output_feed it ran last
    outputs,              \* the outputs reinforce_step sampled, time-major
    weights,              \* the weights it fed, time-major
    rewards,              \* per sample, the <<output_, target_>> it scored
    hyp,                  \* the arguments of sentence_bleu
    ref,
    reward,               \* what it returned, NoneValue before
    loss_args,            \* the tensors the losses are computed on
    losses,               \* the losses of the constructor, NoneValue before
    lm_args,              \* self.lm_weight, the sessions and one candidate's scores
    lm_average,           \* the weights and the average of line 466, NoneValue before
    config,               \* the arguments of the constructor
    graph,                \* the parts of the computation graph built so far
    attrs,                \* what the call of the decoder has bound, as <<name, value>>
    error,                \* the exception the constructor raised, NoError if none
    freeze_variables,     \* the patterns the model was built with
    variables,            \* tf.trainable_variables(), by name: the updates applied
    runs                  \* the session.run calls of the last call on the graph

attn_vars == <<attn_args, attn_weights>>

decoder_vars == <<feed_argmax, inputs, sequence_length, time, input_, dec_state,
                  samples, proj_outputs, draw, net, greedy>>

run_vars == <<call, dropout, feed_previous, branch>>

train_vars == <<global_step, params, accumulators, baseline_params, update_model,
                update_baseline, fetches, outputs, weights, rewards>>

batch_vars == <<data, decoding, batch>>

beam_vars == <<session, beam_width, beam_size, step, i, hypotheses, scores,
               state, output, decoder_input, decoder_output, scores_, flat_ids,
               finished_hypotheses, finished_scores, result>>

reward_vars == <<hyp, ref, reward>>

\* the variables of the functions followed on their own
loss_vars == <<loss_args, losses>>

lm_vars == <<lm_args, lm_average>>

build_vars == <<config, graph, attrs, error>>

function_vars == <<reward_vars, loss_vars, lm_vars, build_vars>>

freeze_vars == <<freeze_variables, variables>>

vars == <<model, pc, beam_vars, batch_vars, attn_vars, decoder_vars, run_vars, train_vars,
          function_vars, freeze_vars, runs>>

\* no attention call is followed
AttentionIdle ==
    /\ attn_args = NoneValue
    /\ attn_weights = NoneValue

\* no decoder loop is followed
DecoderIdle ==
    /\ feed_argmax = TRUE
    /\ inputs = <<>>
    /\ sequence_length = 0
    /\ time = 0
    /\ input_ = NoneValue
    /\ dec_state = <<>>
    /\ samples = <<>>
    /\ proj_outputs = <<>>
    /\ draw = 0
    /\ net = <<>>
    /\ greedy = NoneValue

\* no training call is followed
TrainIdle ==
    /\ global_step = 0
    /\ params = <<>>
    /\ accumulators = 0
    /\ baseline_params = <<>>
    /\ update_model = FALSE
    /\ update_baseline = FALSE
    /\ fetches = {}
    /\ outputs = NoneValue
    /\ weights = NoneValue
    /\ rewards = NoneValue

\* sentence_bleu is not called
RewardIdle ==
    /\ hyp = <<>>
    /\ ref = <<>>
    /\ reward = NoneValue

\* no loss is computed
LossIdle ==
    /\ loss_args = NoneValue
    /\ losses = NoneValue

\* no language model is interpolated
LmIdle ==
    /\ lm_args = NoneValue
    /\ lm_average = NoneValue

NoError == "None"

\* no constructor runs
BuildIdle ==
    /\ config = NoneValue
    /\ graph = <<>>
    /\ attrs = {}
    /\ error = NoError

FunctionsIdle == RewardIdle /\ LossIdle /\ LmIdle /\ BuildIdle

\* no model with trainable variables is built
FreezeIdle ==
    /\ freeze_variables = {}
    /\ variables = <<>>

\* no forward pass is followed
RunIdle ==
    /\ call = NoneValue
    /\ dropout = NoneValue
    /\ feed_previous = 0
    /\ branch = NoneValue

\* ------------------------------------------------ dropout, feed_previous
\* lines 83-88: the values the variable self.dropout can hold in each of n
\* sessions, 1 - rate as constructed or assigned by dropout_on and 1 as
\* assigned by dropout_off; NoneValue, there being no variable, when the
\* rate is 0
DropoutStates(m, n) ==
    IF m.dropout_rate > 0
    THEN [1 .. n -> {ProbDenom - m.dropout_rate, ProbDenom}]
    ELSE {NoneValue}

DropoutKept(dropout_) == dropout_

\* session.run(self.dropout_off) in every session, when self.dropout is
\* not None
DropoutOff(dropout_) == [s \in DOMAIN dropout_ |-> ProbDenom]

DropoutOnKept(m, dropout_) == dropout_

\* session.run(self.dropout_on), when self.dropout is not None
DropoutOn(m, dropout_) == [s \in DOMAIN dropout_ |-> ProbDenom - m.dropout_rate]

\* the sessions a call can be given: those the dropout variable is followed
\* in, one when there is no variable
SessionIds(dropout_) == IF dropout_ = NoneValue THEN {1} ELSE DOMAIN dropout_

\* an assignment run in the sessions of a call: the variable of every other
\* session keeps its value
AssignIn(dropout_, sessions_, assigned) ==
    [s \in DOMAIN dropout_ |-> IF s \in sessions_ THEN assigned[s] ELSE dropout_[s]]

\* the keep probability a run in session s reads: the variable of that
\* session, 1 when the model has none
KeepProb(dropout_, s) == IF dropout_ = NoneValue THEN ProbDenom ELSE dropout_[s]

\* a session.run on the graph: its session, the tensors it fetches and the
\* keep probability it reads
Run(s, fetches_, dropout_) ==
    [session |-> s, fetches |-> fetches_, keep_prob |-> KeepProb(dropout_, s)]

\* what a forward pass reads as feed_previous: the value the feed gives
\* it, or else the constant of line 90
FeedPreviousOf(input_feed, m) ==
    IF "feed_previous" \in DOMAIN input_feed
    THEN input_feed.feed_previous
    ELSE m.feed_previous

\* the part of the feeds that matters here: greedy_decoding feeds
\* self.feed_previous (line 348), a beam step does not (lines 397-415)
GreedyFeed == [feed_previous |-> ProbDenom]

BeamFeed == [decoder_input_length |-> 1]

\* ------------------------------------------------ beam_search_decoding
\* the models self can be: one source sentence set per encoder
Models ==
    [encoder_count : 1 .. MaxEncoders,
     binary : {Repeat(FALSE, MaxEncoders)},
     embedding_size : {1},
     max_input_len : {Unset},
     max_output_len : 1 .. MaxOutputLen,
     len_normalization : 0 .. MaxLenNormalization,
     feed_previous : {0},
     dropout_rate : {0}]

\* what exploring a call costs: its rows, sessions and steps, the sessions
\* counted twice since every row draws one distribution from each
Work(width, sessions, steps) == width * sessions * sessions * steps

\* the model and the arguments of the scenario of C8: beam width 2, one
\* session, and room for a step after the second
ScenarioModels ==
    [encoder_count : 1 .. MaxEncoders,
     binary : {Repeat(FALSE, MaxEncoders)},
     embedding_size : {1},
     max_input_len : {Unset},
     max_output_len : {ScenarioLen},
     len_normalization : {1},
     feed_previous : {0},
     dropout_rate : {0}]

\* lines 358-390: the encoders run once, the beam is the empty hypothesis
BeamStart(models, sessions, widths) ==
    /\ model \in models
    /\ session \in sessions
    /\ beam_width \in widths
    /\ beam_size = beam_width
    /\ decoding = TRUE
    /\ data = << Repeat(<<>>, model.encoder_count + 1) >>
    /\ batch = GetBatch(data, decoding, model)
    /\ decoder_input = batch.decoder_inputs[1]
    /\ finished_hypotheses = <<>>
    /\ finished_scores = <<>>
    /\ hypotheses = << <<>> >>
    /\ scores = <<0>>
    /\ state = [s \in 1 .. session |-> << <<>> >>]
    /\ output = NoneValue
    /\ step = 0
    /\ i = 0
    /\ decoder_output = <<>>
    /\ scores_ = <<>>
    /\ flat_ids = <<>>
    /\ result = NoneValue
    /\ pc = IF model.max_output_len > 0 THEN "loop" ELSE "exit"
    /\ call = "beam_search_decoding"
    /\ dropout \in {DropoutOff(before) : before \in DropoutStates(model, session)}
    /\ feed_previous = FeedPreviousOf(BeamFeed, model)
    /\ branch = NoneValue
    /\ AttentionIdle
    /\ DecoderIdle
    /\ TrainIdle
    /\ FunctionsIdle
    /\ FreezeIdle
    /\ runs = {}

BeamInit ==
    /\ BeamStart(Models, 1 .. MaxSessions, 1 .. MaxBeam)
    /\ Work(beam_width, session, model.max_output_len) <= MaxWork

ScenarioInit == BeamStart(ScenarioModels, {1}, {2})

\* the value of i when line 409 tests it: the loop of line 406 has just
\* run over range(self.encoder_count) with the same variable
LoopVariable(step_, encoder_count) == encoder_count - 1

\* line 409: the previous output snapshot is fed
FeedsOutput(i_) == i_ > 0

\* tf.argmax of one distribution: any token of greatest probability
ArgMax(dist) == {t \in Tokens : \A u \in Tokens : dist[u] <= dist[t]}

\* the recurrent cell advanced on one token (decoders.py line 469)
Cell(state_, sample) == Append(state_, sample)

\* decoders.py lines 457-460 with a single time step: time < time_steps - 1
\* is false, the ground truth is never read and the default case applies;
\* fed is the token the row was fed
Sample(dist, fed) == ArgMax(dist)

\* np.average(logs + [lm_score], axis=0, weights=None) for one candidate:
\* neg_logs are the sessions' -log probabilities, lm_score the zeros row
Average(neg_logs) ==
    IF \E s \in DOMAIN neg_logs : neg_logs[s] = Inf THEN Inf
    ELSE (SumSeq(neg_logs) + 0) \div (Len(neg_logs) + 1)

\* line 466-468: scores_[hyp_id * vocab + token_id]
CandidateScores(scores__, decoder_output_, n_session) ==
    [f \in 1 .. (Len(scores__) * VocabSize) |->
        LET hyp_id == (f - 1) \div VocabSize
            token_id == (f - 1) % VocabSize
        IN  Add(scores__[hyp_id + 1],
                Average([s \in 1 .. n_session |->
                            NegLog(decoder_output_[s][hyp_id + 1][token_id])]))]

TopCandidatesOneMore(candidate_scores, beam_size_) ==
    ArgsortTake(Len(candidate_scores), ScoreOrder(candidate_scores), beam_size_ + 1)

TopCandidatesUnsorted(candidate_scores, beam_size_) ==
    {[j \in 1 .. Min(beam_size_, Len(candidate_scores)) |-> j - 1]}

\* line 469: the candidates kept
TopCandidates(candidate_scores, beam_size_) ==
    ArgsortTake(Len(candidate_scores), ScoreOrder(candidate_scores), beam_size_)

\* line 481
Extend(hypothesis, token_id) == Append(hypothesis, token_id)

\* line 484
IsFinished(candidate) == candidate.token_id = EOS_ID

IsLiveAlways(candidate) == TRUE

\* line 489
IsLive(candidate) == ~IsFinished(candidate)

ReducedBeamOnce(beam_size_, n_finished) ==
    IF n_finished > 0 THEN beam_size_ - 1 ELSE beam_size_

\* line 486, once per finished candidate
ReducedBeam(beam_size_, n_finished) == beam_size_ - n_finished

\* line 493: the state a kept row carries into the next step
CarriedState(decoder_state_, hyp_id) == decoder_state_[hyp_id + 1]

BreakAtOne(beam_size_) == beam_size_ <= 1

\* line 505
Break(beam_size_) == beam_size_ <= 0

\* lines 392-506, an iteration that fails at line 410: zip(input_feed, None)
BeamStepFails ==
    /\ pc = "loop"
    /\ FeedsOutput(LoopVariable(step, model.encoder_count))
    /\ output = NoneValue
    /\ i' = LoopVariable(step, model.encoder_count)
    /\ pc' = "error"
    /\ UNCHANGED <<model, session, beam_width, beam_size, step, hypotheses, scores,
                   state, output, decoder_input, decoder_output, scores_, flat_ids,
                   finished_hypotheses, finished_scores, result, batch_vars, attn_vars,
                   decoder_vars, run_vars, train_vars, function_vars, freeze_vars,
                   runs>>

\* lines 392-506, one iteration of the step loop
BeamStep ==
    /\ pc = "loop"
    /\ ~(FeedsOutput(LoopVariable(step, model.encoder_count)) /\ output = NoneValue)
    /\ LET batch_size == Len(decoder_input)
       IN  \E res \in [1 .. session -> [1 .. batch_size -> Dists]] :
           \E sample \in [1 .. session -> [1 .. batch_size -> Tokens]] :
           /\ \A s \in 1 .. session : \A k \in 1 .. batch_size :
                 sample[s][k] \in Sample(res[s][k], decoder_input[k])
           /\ LET decoder_state ==
                      [s \in 1 .. session |->
                          [k \in 1 .. batch_size |-> Cell(state[s][k], sample[s][k])]]
                  candidate_scores == CandidateScores(scores, res, session)
              IN  \E ids \in TopCandidates(candidate_scores, beam_size) :
                  LET candidates ==
                          [j \in 1 .. Len(ids) |->
                              [hyp_id |-> ids[j] \div VocabSize,
                               token_id |-> ids[j] % VocabSize,
                               hypothesis |-> Extend(hypotheses[(ids[j] \div VocabSize) + 1],
                                                     ids[j] % VocabSize),
                               score |-> candidate_scores[ids[j] + 1]]]
                      done == SelectSeq(candidates, IsFinished)
                      live == SelectSeq(candidates, IsLive)
                      new_beam == ReducedBeam(beam_size, Len(done))
                      new_state ==
                          [s \in 1 .. session |->
                              [j \in 1 .. Len(live) |->
                                  CarriedState(decoder_state[s], live[j].hyp_id)]]
                  IN  /\ decoder_output' = res
                      /\ scores_' = candidate_scores
                      /\ flat_ids' = ids
                      /\ beam_size' = new_beam
                      /\ finished_hypotheses' =
                            finished_hypotheses \o [j \in 1 .. Len(done) |-> done[j].hypothesis]
                      /\ finished_scores' =
                            finished_scores \o [j \in 1 .. Len(done) |-> done[j].score]
                      /\ hypotheses' = [j \in 1 .. Len(live) |-> live[j].hypothesis]
                      /\ scores' = [j \in 1 .. Len(live) |-> live[j].score]
                      /\ decoder_input' = [j \in 1 .. Len(live) |-> live[j].token_id]
                      /\ state' = new_state
                      /\ output' = new_state
                      /\ step' = step + 1
                      /\ i' = LoopVariable(step, model.encoder_count)
                      /\ pc' = IF Break(new_beam) \/ step + 1 >= model.max_output_len
                               THEN "exit" ELSE "loop"
    /\ branch' \in {Branch(0, 1, d, feed_previous, feed_argmax) : d \in Draws}
    /\ UNCHANGED <<model, session, beam_width, result, batch_vars, attn_vars,
                   decoder_vars, call, dropout, feed_previous, train_vars,
                   function_vars, freeze_vars, runs>>

NormalizeNever(score, hypothesis, len_normalization) == <<score, 1>>

\* line 512: the score of a hypothesis divided by a power of its length
Normalize(score, hypothesis, len_normalization) ==
    IF len_normalization > 0
    THEN <<score, Pow(Len(hypothesis), len_normalization)>>
    ELSE <<score, 1>>

MergeDropsLive(live, finished) == finished

\* lines 508-509
Merge(live, finished) == live \o finished

\* lines 515-517: the order the best-list is returned in
SortedIdx(final_scores) ==
    ArgsortTake(Len(final_scores), FracOrder(final_scores), Len(final_scores))

\* lines 508-518: merge, normalize, sort and return
BeamReturn ==
    /\ pc = "exit"
    /\ LET all_hypotheses == Merge(hypotheses, finished_hypotheses)
           all_scores == Merge(scores, finished_scores)
           final == [j \in 1 .. Len(all_scores) |->
                        Normalize(all_scores[j], all_hypotheses[j], model.len_normalization)]
       IN  \E sorted_idx \in SortedIdx(final) :
              result' = << [j \in 1 .. Len(sorted_idx) |-> all_hypotheses[sorted_idx[j] + 1]],
                           [j \in 1 .. Len(sorted_idx) |-> final[sorted_idx[j] + 1]] >>
    /\ pc' = "done"
    /\ UNCHANGED <<model, session, beam_width, beam_size, step, i, hypotheses, scores,
                   state, output, decoder_input, decoder_output, scores_, flat_ids,
                   finished_hypotheses, finished_scores, batch_vars, attn_vars,
                   decoder_vars, run_vars, train_vars, function_vars, freeze_vars,
                   runs>>

\* ------------------------------------------------- get_batch, called
\* a source sentence: token ids, or vectors for a binary encoder
SrcSentences(binary) ==
    {Repeat(IF binary THEN <<1>> ELSE 0, n) : n \in 0 .. MaxSentenceLen}

\* the token ids a target sentence is made of
TrgTokens == {0, EOS_ID}

TrgSentences == UNION {[1 .. n -> TrgTokens] : n \in 0 .. MaxSentenceLen}

RECURSIVE SrcTuples(_, _)
SrcTuples(m, e) ==
    IF e = 0 THEN {<<>>}
    ELSE {Append(srcs, s) : srcs \in SrcTuples(m, e - 1), s \in SrcSentences(m.binary[e])}

Samples(m) == {Append(srcs, t) : srcs \in SrcTuples(m, m.encoder_count), t \in TrgSentences}

Batches(m) ==
    UNION {[1 .. n -> Samples(m)] :
              n \in {k \in 1 .. MaxSentences : k * (m.encoder_count + 1) <= MaxSentences}}

BatchModels ==
    {m \in [encoder_count : 1 .. MaxEncoders,
            binary : [1 .. MaxEncoders -> BOOLEAN],
            embedding_size : {1},
            max_input_len : {Unset, 1},
            max_output_len : 1 .. MaxOutputLen,
            len_normalization : {1},
            feed_previous : {0},
            dropout_rate : {0}] :
        \A e \in 1 .. MaxEncoders : e > m.encoder_count => ~m.binary[e]}

\* no beam search runs
BeamIdle ==
    /\ session = 1
    /\ beam_width = 0
    /\ beam_size = 0
    /\ step = 0
    /\ i = 0
    /\ hypotheses = <<>>
    /\ scores = <<>>
    /\ state = <<>>
    /\ output = NoneValue
    /\ decoder_input = <<>>
    /\ decoder_output = <<>>
    /\ scores_ = <<>>
    /\ flat_ids = <<>>
    /\ finished_hypotheses = <<>>
    /\ finished_scores = <<>>
    /\ result = NoneValue

BatchInit ==
    /\ model \in BatchModels
    /\ data \in Batches(model)
    /\ decoding \in BOOLEAN
    /\ batch = NoneValue
    /\ pc = "get_batch"
    /\ BeamIdle
    /\ AttentionIdle
    /\ DecoderIdle
    /\ RunIdle
    /\ TrainIdle
    /\ FunctionsIdle
    /\ FreezeIdle
    /\ runs = {}

\* lines 520-586: get_batch(data, decoding)
GetBatchCall ==
    /\ pc = "get_batch"
    /\ batch' = GetBatch(data, decoding, model)
    /\ pc' = "built"
    /\ UNCHANGED <<model, data, decoding, beam_vars, attn_vars, decoder_vars, run_vars,
                   train_vars, function_vars, freeze_vars, runs>>

SpecBatch == BatchInit /\ [][GetBatchCall]_vars

\* ------------------------------------------------- attention, called
\* no batch is built
BatchIdle ==
    /\ data = NoneValue
    /\ decoding = FALSE
    /\ batch = NoneValue

\* one call of attention for one sample: attn_length source positions of
\* which encoder_input_length are real, their energies e, the window size
\* of the encoder (0: global attention) and the aligned position pt
AttnArgs ==
    UNION {[attention_window_size : 0 .. MaxWindow,
            attn_length : {n},
            encoder_input_length : 1 .. n,
            e : [1 .. n -> Energies],
            pt : 0 .. (n - 1)] : n \in 1 .. MaxAttnLen}

AttentionInit ==
    /\ attn_args \in AttnArgs
    /\ attn_weights = NoneValue
    /\ model = NoneValue
    /\ pc = "attention"
    /\ BeamIdle
    /\ BatchIdle
    /\ DecoderIdle
    /\ RunIdle
    /\ TrainIdle
    /\ FunctionsIdle
    /\ FreezeIdle
    /\ runs = {}

\* decoders.py 308-317
AttentionCall ==
    /\ pc = "attention"
    /\ attn_weights' = Attention(attn_args)
    /\ pc' = "attended"
    /\ UNCHANGED <<model, attn_args, beam_vars, batch_vars, decoder_vars, run_vars,
                   train_vars, function_vars, freeze_vars, runs>>

SpecAttention == AttentionInit /\ [][AttentionCall]_vars

\* --------------------------------------- attention_decoder, the loop
\* decoders.py 418-436: the loop variables before the first time step
LoopStart ==
    /\ time = 0
    /\ input_ = ReadInput(inputs, 0)
    /\ dec_state = <<>>
    /\ samples = <<>>
    /\ proj_outputs = <<>>
    /\ draw = 0
    /\ branch = NoneValue

\* the decoder inputs of one sample: BOS, then the ground truth
DecoderInputs ==
    UNION {{<<BOS_ID>> \o t : t \in [1 .. n -> Tokens]} : n \in 0 .. (MaxTimeSteps - 1)}

\* attention_decoder on one sample, any feed_previous and feed_argmax
DecoderInit ==
    /\ call = "attention_decoder"
    /\ model = NoneValue
    /\ dropout = NoneValue
    /\ feed_previous \in FeedPreviousValues
    /\ feed_argmax \in BOOLEAN
    /\ inputs \in DecoderInputs
    /\ sequence_length \in 1 .. Len(inputs)
    /\ net = <<>>
    /\ greedy = NoneValue
    /\ LoopStart
    /\ pc = "decode"
    /\ BeamIdle
    /\ BatchIdle
    /\ AttentionIdle
    /\ TrainIdle
    /\ FunctionsIdle
    /\ FreezeIdle
    /\ runs = {}

\* the loop condition, were it to end the loop at a sampled EOS
LoopCondUntilEOS(time_, samples_, time_steps) ==
    /\ time_ < time_steps
    /\ \A k \in DOMAIN samples_ : samples_[k] # EOS_ID

\* decoders.py 487-488: cond of the while loop; it is given every loop
\* variable and reads the time alone
LoopCond(time_, samples_, time_steps) == time_ < time_steps

\* decoders.py 438-485: _time_step for one sample.  The logits are what
\* the parameters give for the state, the input and the time of the step:
\* any logits the first time, the same ones ever after.
TimeStep ==
    /\ pc = "decode"
    /\ LoopCond(time, samples, Len(inputs))
    /\ \E logits \in Logits : \E d \in Draws :
          LET key == <<dec_state, input_, time>>
              b == Branch(time, Len(inputs), d, feed_previous, feed_argmax)
          IN  /\ key \in DOMAIN net => logits = net[key]
              /\ net' = [k \in DOMAIN net \cup {key} |-> IF k = key THEN logits ELSE net[k]]
              /\ proj_outputs' = Append(proj_outputs, logits)
              /\ draw' = d
              /\ branch' = b
              /\ \E sample \in SampleOf(b, logits, inputs, time) :
                    IF sample = OutOfRange
                    THEN /\ pc' = "error"
                         /\ UNCHANGED <<time, input_, dec_state, samples>>
                    ELSE /\ samples' = Append(samples, sample)
                         /\ input_' = sample
                         /\ dec_state' = RnnStep(time, sequence_length, dec_state, sample)
                         /\ time' = time + 1
                         /\ pc' = IF LoopCond(time', samples', Len(inputs))
                                  THEN "decode" ELSE "decoded"
    /\ UNCHANGED <<model, beam_vars, batch_vars, attn_vars, feed_argmax, inputs,
                   sequence_length, greedy, call, dropout, feed_previous, train_vars,
                   function_vars, freeze_vars, runs>>

SpecDecoder == DecoderInit /\ [][TimeStep]_vars

\* ------------------------------------------------------ greedy_decoding
\* the column of a time-major array that belongs to sample b
Column(array, b) == [t \in 1 .. Len(array) |-> array[t][b]]

\* the models greedy_decoding is followed for
GreedyModels(feeds, rates) ==
    [encoder_count : {1},
     binary : {Repeat(FALSE, MaxEncoders)},
     embedding_size : {1},
     max_input_len : {Unset},
     max_output_len : 1 .. MaxOutputLen,
     len_normalization : {1},
     feed_previous : feeds,
     dropout_rate : rates]

\* lines 336-353: dropout is switched off, the batch built and the feed
\* filled; the decoder is about to run
GreedyStart(models) ==
    /\ call = "greedy_decoding"
    /\ model \in models
    /\ dropout \in {DropoutOff(before) : before \in DropoutStates(model, 1)}
    /\ data = << Repeat(<<>>, model.encoder_count + 1) >>
    /\ decoding = TRUE
    /\ batch = GetBatch(data, decoding, model)
    /\ inputs = Column(batch.decoder_inputs, 1)
    /\ sequence_length = batch.decoder_input_length[1]
    /\ feed_previous = FeedPreviousOf(GreedyFeed, model)
    /\ feed_argmax = TRUE
    /\ net = <<>>
    /\ greedy = NoneValue
    /\ LoopStart
    /\ pc = "decode"
    /\ BeamIdle
    /\ AttentionIdle
    /\ TrainIdle
    /\ FunctionsIdle
    /\ FreezeIdle
    /\ runs = {}

\* lines 355-356: the token of greatest logit of every step is returned
GreedyReturn ==
    /\ pc = "decoded"
    /\ call = "greedy_decoding"
    /\ greedy' = [hypothesis |-> [k \in 1 .. Len(proj_outputs) |-> NpArgMax(proj_outputs[k])],
                  outputs |-> proj_outputs,
                  samples |-> samples]
    /\ pc' = "returned"
    /\ UNCHANGED <<model, beam_vars, batch_vars, attn_vars, feed_argmax, inputs,
                   sequence_length, time, input_, dec_state, samples, proj_outputs,
                   draw, net, run_vars, train_vars, function_vars, freeze_vars, runs>>

\* the decoder run again on the same source with the hypothesis as the
\* ground truth (get_batch with decoding=False) and feed_previous = 0, the
\* parameters and the dropout switch as greedy_decoding left them
Refeed ==
    /\ pc = "returned"
    /\ call = "greedy_decoding"
    /\ call' = "attention_decoder"
    /\ data' = << Repeat(<<>>, model.encoder_count) \o <<greedy.hypothesis>> >>
    /\ decoding' = FALSE
    /\ batch' = GetBatch(data', decoding', model)
    /\ inputs' = Column(batch'.decoder_inputs, 1)
    /\ sequence_length' = batch'.decoder_input_length[1]
    /\ feed_previous' = 0
    /\ time' = 0
    /\ input_' = ReadInput(inputs', 0)
    /\ dec_state' = <<>>
    /\ samples' = <<>>
    /\ proj_outputs' = <<>>
    /\ draw' = 0
    /\ branch' = NoneValue
    /\ pc' = "decode"
    /\ UNCHANGED <<model, beam_vars, attn_vars, feed_argmax, net, greedy, dropout,
                   train_vars, function_vars, freeze_vars, runs>>

RoundTripInit == GreedyStart(GreedyModels({0}, {0}))

RoundTripNext == TimeStep \/ GreedyReturn \/ Refeed

SpecRoundTrip == RoundTripInit /\ [][RoundTripNext]_vars

\* ------------------------------------------- inference, both decoders
\* the models beam_search_decoding is followed for with any feed_previous
\* and dropout rate
InferenceModels ==
    [encoder_count : 1 .. MaxEncoders,
     binary : {Repeat(FALSE, MaxEncoders)},
     embedding_size : {1},
     max_input_len : {Unset},
     max_output_len : 1 .. MaxOutputLen,
     len_normalization : {1},
     feed_previous : FeedPreviousValues,
     dropout_rate : 0 .. MaxDropoutRate]

\* the forward passes of a call: one per row, session and step
Passes(width, sessions, steps) == width * sessions * steps

InferenceInit ==
    \/ GreedyStart(GreedyModels(FeedPreviousValues, 0 .. MaxDropoutRate))
    \/ /\ BeamStart(InferenceModels, 1 .. MaxSessions, 1 .. MaxBeam)
       /\ Passes(beam_width, session, model.max_output_len) <= MaxPasses

InferenceNext == TimeStep \/ GreedyReturn \/ BeamStep \/ BeamStepFails \/ BeamReturn

SpecInference == InferenceInit /\ [][InferenceNext]_vars

\* ---------------------------------------------- step, reinforce_step
\* lines 202-207: the optimizers a model is built with; all but sgd keep
\* accumulators
Optimizers == {"sgd", "adam"}

\* the models the training calls are followed for, built with
\* decode_only False
TrainModels(rates, optimizers, baselines) ==
    [encoder_count : {1},
     binary : {Repeat(FALSE, MaxEncoders)},
     embedding_size : {1},
     max_input_len : {Unset},
     max_output_len : 1 .. MaxOutputLen,
     len_normalization : {1},
     feed_previous : {0},
     dropout_rate : rates,
     optimizer : optimizers,
     reinforce_baseline : baselines]

\* the batches of samples with an empty source sentence
TrainBatches(m) ==
    UNION {[1 .. n -> {<<<<>>, t>> : t \in TrgSentences}] :
              n \in {k \in 1 .. MaxSentences : k * (m.encoder_count + 1) <= MaxSentences}}

StepFetchesAlways(update_model_) == {"loss", "gradient", "updates"}

\* lines 259-261: the keys of the output_feed of step
StepFetches(update_model_) ==
    {"loss", "gradient"} \cup (IF update_model_ THEN {"updates"} ELSE {})

\* lines 324-330: the keys of the second output_feed of reinforce_step
ReinforceFetches(update_model_, update_baseline_) ==
    {"loss", "baseline_loss"}
        \cup (IF update_model_ THEN {"updates"} ELSE {})
        \cup (IF update_baseline_ THEN {"baseline_updates"} ELSE {})

\* line 220, self.updates: opt.apply_gradients on the gradients of the loss
\* the run selects (lines 211-215), one more update of the parameters
ParamsAfter(params_, fetches_, loss) ==
    IF "updates" \in fetches_ THEN Append(params_, loss) ELSE params_

\* lines 202-207 and 220: the accumulators of an optimizer that has them
\* see each update opt applies
AccumulatorsAfter(accumulators_, fetches_, m) ==
    IF "updates" \in fetches_ /\ m.optimizer # "sgd"
    THEN accumulators_ + 1
    ELSE accumulators_

GlobalStepCountsBaseline(global_step_, fetches_) ==
    IF fetches_ \cap {"updates", "baseline_updates"} # {}
    THEN global_step_ + 1
    ELSE global_step_

\* lines 220 and 232: self.updates is given global_step=self.global_step,
\* self.baseline_updates is not
GlobalStepAfter(global_step_, fetches_) ==
    IF "updates" \in fetches_ THEN global_step_ + 1 ELSE global_step_

\* lines 228-234: self.baseline_updates is an sgd update of reward_baseline
\* when the model has a baseline, and a constant tensor when it has none
BaselineAfter(baseline_params_, fetches_, m) ==
    IF "baseline_updates" \in fetches_ /\ m.reinforce_baseline
    THEN Append(baseline_params_, "baseline_loss")
    ELSE baseline_params_

\* line 296, i[0] of np.where(output_ == utils.EOS_ID): the 0-based index
\* of the first EOS of output_; Len(output_) stands for there being none
FirstEOS(output_) ==
    LET i_ == {k \in 0 .. (Len(output_) - 1) : output_[k + 1] = EOS_ID}
    IN  IF i_ = {} THEN Len(output_) ELSE CHOOSE k \in i_ : \A l \in i_ : k <= l

HasEOS(output_) == FirstEOS(output_) < Len(output_)

ReinforceWeightsBefore(output_) ==
    [t \in 1 .. Len(output_) |->
        IF HasEOS(output_) /\ t - 1 >= FirstEOS(output_) THEN 0 ELSE 1]

\* lines 298-304: weights_, 1 up to and including the first EOS
ReinforceWeights(output_) ==
    [t \in 1 .. Len(output_) |->
        IF HasEOS(output_) /\ t - 1 > FirstEOS(output_) THEN 0 ELSE 1]

\* line 302: output_[:i + 1] when there is an EOS, output_ otherwise
ReinforceOutput(output_) ==
    IF HasEOS(output_) THEN SubSeq(output_, 1, FirstEOS(output_) + 1) ELSE output_

\* lines 289-311: the weights, time-major after the transpose of line 311,
\* and per sample the arguments self.reinforce_reward is called on
ReinforceLoop(outputs_, batch_) ==
    LET n == Len(batch_.decoder_input_length)
        output_(b) == Column(outputs_, b)
        target_(b) == Slice(Column(batch_.targets, b), batch_.decoder_input_length[b])
    IN  [weights |->
            [t \in 1 .. Len(outputs_) |-> [b \in 1 .. n |-> ReinforceWeights(output_(b))[t]]],
         rewards |->
            [b \in 1 .. n |-> <<ReinforceOutput(output_(b)), target_(b)>>]]

\* the arrays self.sampled_output can come back as for a batch: a token
\* per time step and sample, every token having a positive probability
SampledOutputs(batch_) ==
    [1 .. Len(batch_.decoder_inputs) ->
        [1 .. Len(batch_.decoder_input_length) -> Tokens]]

\* the names of tf.trainable_variables(), scope by scope: the variables of
\* the encoder and of the decoder, and those of reward_baseline when the
\* model has a baseline (lines 165-171)
TrainableVariables(m) ==
    {<<"encoder_fr", "cell">>, <<"decoder_en", "cell">>, <<"decoder_en", "proj_w">>}
        \cup (IF m.reinforce_baseline THEN {<<"reward_baseline", "weights">>} ELSE {})

\* the part of a pattern that stands for any run of name parts
AnyParts == ".*"

\* the patterns a model is built with
FreezePatterns ==
    {<<"encoder_fr">>, <<"decoder_en">>, <<"decoder_en", "cell">>, <<"proj_w">>,
     <<AnyParts, "proj_w">>, <<"reward_baseline">>}

MaxPatterns == 2

\* freeze_variables: None, read as no pattern (lines 191-192), or a list
FreezeChoices == {f \in SUBSET FreezePatterns : Cardinality(f) <= MaxPatterns}

\* line 196, re.match(var_, var.name): the pattern matches at the start of
\* the name, whatever follows
RECURSIVE ReMatch(_, _)
ReMatch(pattern, name) ==
    IF pattern = <<>> THEN TRUE
    ELSE IF Head(pattern) = AnyParts
         THEN \E k \in 0 .. Len(name) :
                 ReMatch(Tail(pattern), SubSeq(name, k + 1, Len(name)))
         ELSE /\ name # <<>>
              /\ Head(name) = Head(pattern)
              /\ ReMatch(Tail(pattern), Tail(name))

\* lines 195-196
FrozenParameters(m, freeze) ==
    {v \in TrainableVariables(m) : \E var_ \in freeze : ReMatch(var_, v)}

ParamsWithFrozen(m, freeze) == TrainableVariables(m)

\* line 199, params
Params(m, freeze) == TrainableVariables(m) \ FrozenParameters(m, freeze)

\* lines 169 and 177: reward_baseline reads the states and is read by the
\* reward through tf.stop_gradient, so baseline_loss has a gradient for the
\* variables of reward_baseline alone and the other losses for the rest
HasGradient(loss, v) == (loss = "baseline_loss") <=> (Head(v) = "reward_baseline")

\* lines 220 and 232, apply_gradients(zip(clipped_gradients, params))
ApplyGradients(variables_, params_, loss) ==
    [v \in DOMAIN variables_ |->
        IF v \in params_ /\ HasGradient(loss, v)
        THEN Append(variables_[v], loss)
        ELSE variables_[v]]

\* the trainable variables after a run of the fetches
VariablesAfter(variables_, fetches_, m, freeze, loss) ==
    LET updated == IF "updates" \in fetches_
                   THEN ApplyGradients(variables_, Params(m, freeze), loss)
                   ELSE variables_
    IN  IF "baseline_updates" \in fetches_ /\ m.reinforce_baseline
        THEN ApplyGradients(updated, Params(m, freeze), "baseline_loss")
        ELSE updated

\* a model built with one of the freezes, before its first training call
TrainStartFrozen(models, batches, freezes) ==
    /\ model \in models
    /\ data \in batches
    /\ freeze_variables \in freezes
    /\ variables = [v \in TrainableVariables(model) |-> <<>>]
    /\ runs = {}
    /\ decoding = FALSE
    /\ batch = NoneValue
    /\ pc = "train"
    /\ call = NoneValue
    /\ dropout \in DropoutStates(model, 1)
    /\ feed_previous = model.feed_previous
    /\ branch = NoneValue
    /\ BeamIdle
    /\ AttentionIdle
    /\ DecoderIdle
    /\ TrainIdle
    /\ FunctionsIdle

\* a model built with freeze_variables None
TrainStart(models, batches) == TrainStartFrozen(models, batches, {{}})

\* lines 238-266, step(session, data, update_model)
Step ==
    /\ pc = "train"
    /\ global_step < MaxUpdates
    /\ \E update_model_ \in BOOLEAN, s \in SessionIds(dropout) :
          LET output_feed == StepFetches(update_model_)
          IN  /\ update_model' = update_model_
              /\ dropout' = AssignIn(dropout, {s}, DropoutOn(model, dropout))
              /\ runs' = {Run(s, output_feed, dropout')}
              /\ fetches' = output_feed
              /\ params' = ParamsAfter(params, output_feed, "xent_loss")
              /\ accumulators' = AccumulatorsAfter(accumulators, output_feed, model)
              /\ global_step' = GlobalStepAfter(global_step, output_feed)
              /\ baseline_params' = BaselineAfter(baseline_params, output_feed, model)
              /\ variables' = VariablesAfter(variables, output_feed, model,
                                             freeze_variables, "xent_loss")
    /\ update_baseline' = FALSE
    /\ call' = "step"
    /\ batch' = GetBatch(data, FALSE, model)
    /\ UNCHANGED <<model, pc, data, decoding, beam_vars, attn_vars, decoder_vars,
                   feed_previous, branch, outputs, weights, rewards, function_vars,
                   freeze_variables>>

\* lines 268-334, reinforce_step(session, data, update_model, update_baseline)
ReinforceStep ==
    /\ pc = "train"
    /\ global_step < MaxUpdates
    /\ Len(baseline_params) < MaxUpdates
    /\ \E update_model_ \in BOOLEAN, update_baseline_ \in BOOLEAN, s \in SessionIds(dropout) :
          LET output_feed == ReinforceFetches(update_model_, update_baseline_)
              off == AssignIn(dropout, {s}, DropoutOff(dropout))
              on == AssignIn(off, {s}, DropoutOn(model, off))
          IN  /\ update_model' = update_model_
              /\ dropout' = on
              /\ runs' = {Run(s, {"sampled_output", "decoder_states"}, off),
                          Run(s, output_feed, on)}
              /\ update_baseline' = update_baseline_
              /\ fetches' = output_feed
              /\ params' = ParamsAfter(params, output_feed, "reinforce_loss")
              /\ accumulators' = AccumulatorsAfter(accumulators, output_feed, model)
              /\ global_step' = GlobalStepAfter(global_step, output_feed)
              /\ baseline_params' = BaselineAfter(baseline_params, output_feed, model)
              /\ variables' = VariablesAfter(variables, output_feed, model,
                                             freeze_variables, "reinforce_loss")
    /\ call' = "reinforce_step"
    /\ batch' = GetBatch(data, FALSE, model)
    /\ \E outputs_ \in SampledOutputs(batch') :
          /\ outputs' = outputs_
          /\ weights' = ReinforceLoop(outputs_, batch').weights
          /\ rewards' = ReinforceLoop(outputs_, batch').rewards
    /\ UNCHANGED <<model, pc, data, decoding, beam_vars, attn_vars, decoder_vars,
                   feed_previous, branch, function_vars, freeze_variables>>

\* sequences of training calls on the batches of one sample whose target
\* has at most one token
TrainInit ==
    TrainStart(TrainModels(0 .. MaxDropoutRate, Optimizers, BOOLEAN),
               {d \in TrainBatches(model) : Len(d) = 1 /\ Len(d[1][2]) <= 1})

TrainNext == Step \/ ReinforceStep

SpecTrain == TrainInit /\ [][TrainNext]_vars

\* the first call of reinforce_step on any batch, the model one with a
\* baseline and the default optimizer
ReinforceInit == TrainStart(TrainModels({0}, {"sgd"}, {TRUE}), TrainBatches(model))

ReinforceNext == outputs = NoneValue /\ ReinforceStep

SpecReinforce == ReinforceInit /\ [][ReinforceNext]_vars

\* sequences of training calls on a model built with any of the freezes,
\* the batch one sample with an empty target
FreezeInit ==
    TrainStartFrozen(TrainModels({0}, Optimizers, BOOLEAN),
                     {d \in TrainBatches(model) : Len(d) = 1 /\ d[1][2] = <<>>},
                     FreezeChoices)

SpecFreeze == FreezeInit /\ [][TrainNext]_vars

\* ------------------------------------- the calls of a model, interleaved
\* lines 336-356: the runs of greedy_decoding in the session it is given;
\* what the one run on the graph computes is followed in SpecRoundTrip
GreedyDecoding ==
    /\ pc = "train"
    /\ \E s \in SessionIds(dropout) :
          /\ dropout' = AssignIn(dropout, {s}, DropoutOff(dropout))
          /\ runs' = {Run(s, {"outputs", "attention_weights"}, dropout')}
    /\ call' = "greedy_decoding"
    /\ batch' = GetBatch(<< Repeat(<<>>, model.encoder_count + 1) >>, TRUE, model)
    /\ UNCHANGED <<model, pc, data, decoding, beam_vars, attn_vars, decoder_vars,
                   feed_previous, branch, train_vars, function_vars, freeze_vars>>

\* lines 358-423: the runs of beam_search_decoding in the sessions it is
\* given: the encoders and the initial state once per session, then the
\* beam step per session as long as the loop goes on; what they compute is
\* followed in Spec
BeamSearchDecoding ==
    /\ pc = "train"
    /\ \E session_ \in (SUBSET SessionIds(dropout)) \ {{}} :
       \E steps \in 0 .. model.max_output_len :
          /\ dropout' = AssignIn(dropout, session_, DropoutOff(dropout))
          /\ runs' = UNION {{Run(s, {"encoder_state", "attention_states"}, dropout'),
                             Run(s, {"state"}, dropout')}
                                \cup (IF steps > 0
                                      THEN {Run(s, {"output", "decoder_output",
                                                    "decoder_state"}, dropout')}
                                      ELSE {}) : s \in session_}
    /\ call' = "beam_search_decoding"
    /\ batch' = GetBatch(<< Repeat(<<>>, model.encoder_count + 1) >>, TRUE, model)
    /\ UNCHANGED <<model, pc, data, decoding, beam_vars, attn_vars, decoder_vars,
                   feed_previous, branch, train_vars, function_vars, freeze_vars>>

\* a model built with dropout, its variable holding either value in each
\* of the sessions, before any call
DropoutInit ==
    /\ model \in TrainModels(1 .. MaxDropoutRate, {"sgd"}, {TRUE})
    /\ data \in {d \in TrainBatches(model) : Len(d) = 1 /\ d[1][2] = <<>>}
    /\ freeze_variables = {}
    /\ variables = [v \in TrainableVariables(model) |-> <<>>]
    /\ runs = {}
    /\ decoding = FALSE
    /\ batch = NoneValue
    /\ pc = "train"
    /\ call = NoneValue
    /\ \E n \in 1 .. MaxSessions : dropout \in DropoutStates(model, n)
    /\ feed_previous = model.feed_previous
    /\ branch = NoneValue
    /\ BeamIdle
    /\ AttentionIdle
    /\ DecoderIdle
    /\ TrainIdle
    /\ FunctionsIdle

DropoutNext == Step \/ ReinforceStep \/ GreedyDecoding \/ BeamSearchDecoding

SpecDropout == DropoutInit /\ [][DropoutNext]_vars

\* -------------------------------------------------------- sentence_bleu
\* a float of the reward is a pair <<a, b>>: the quotient a / b when
\* b > 0, and what IEEE division gives when b = 0
Infinity == <<1, 0>>

NaN == <<0, 0>>

\* x / y of two non-negative floats
FloatDiv(x, y) ==
    IF y # 0 THEN <<x, y>>
    ELSE IF x = 0 THEN NaN ELSE Infinity

\* 1.0 - q
OneMinus(q) == IF q[2] = 0 THEN <<0 - q[1], 0>> ELSE <<q[2] - q[1], q[2]>>

\* the sentences sentence_bleu is called on
BleuSentences == UNION {[1 .. n -> Tokens] : n \in 0 .. MaxBleuLen}

\* decoders.py 563-567, truncate: s up to its first EOS, which is left out
Truncate(s) == SubSeq(s, 1, FirstEOS(s))

\* stands for the least int64, which tf.reduce_max gives for no element;
\* no n-gram is made with it
Lowest == 0 - 1

\* line 572
ReduceMax(s) == IF s = <<>> THEN Lowest ELSE MaxOf({s[k] : k \in DOMAIN s})

\* lines 575-580, len(ngrams)
NgramOrders == 4

\* lines 575-580: the codes of the n-grams of s in base max_value
Ngrams(n, s, max_value) ==
    [k \in 1 .. Max(Len(s) + 1 - n, 0) |->
        SumSeq([j \in 1 .. n |-> s[k + j - 1] * Pow(max_value, n - j)])]

\* tf.nn.top_k(x, tf.shape(x)[0]).values followed by tf.unique_with_counts:
\* the values of x from the greatest down, and how often x holds each
UniqueDescending(x) ==
    LET values == {x[k] : k \in DOMAIN x}
    IN  CHOOSE y \in [1 .. Cardinality(values) -> values] :
            \A a, b \in DOMAIN y : a < b => y[a] > y[b]

CountOf(v, x) == Cardinality({k \in DOMAIN x : x[k] = v})

\* lines 588-597: hyp_counts or ref_counts, one count for each n-gram of
\* hyp_plus_ref
NgramCounts(ngrams_, hyp_plus_ref) ==
    LET x == ngrams_ \o hyp_plus_ref
        y == UniqueDescending(x)
    IN  [k \in DOMAIN y |-> CountOf(y[k], x) - 1]

\* lines 585-600: <<numerator, denominator>> of the order n
NgramPrecision(n, hyp_, ref_) ==
    LET max_value == ReduceMax(hyp_ \o ref_)
        hyp_ngrams == Ngrams(n, hyp_, max_value)
        ref_ngrams == Ngrams(n, ref_, max_value)
        hyp_plus_ref == UniqueDescending(hyp_ngrams \o ref_ngrams)
        hyp_counts == NgramCounts(hyp_ngrams, hyp_plus_ref)
        ref_counts == NgramCounts(ref_ngrams, hyp_plus_ref)
    IN  <<SumSeq([k \in DOMAIN hyp_counts |-> Min(hyp_counts[k], ref_counts[k])]) + 1,
          SumSeq(hyp_counts) + 1>>

\* lines 582-602: score is the sum over the orders of
\* log(numerator / denominator) / len(ngrams), kept as the product of the
\* quotients, of which exp(score) is the len(ngrams)-th root
RECURSIVE ScoreProduct(_, _, _)
ScoreProduct(n, hyp_, ref_) ==
    IF n = 0 THEN <<1, 1>>
    ELSE LET p == NgramPrecision(n, hyp_, ref_)
             q == ScoreProduct(n - 1, hyp_, ref_)
         IN  <<p[1] * q[1], p[2] * q[2]>>

\* line 607, tf.minimum(1.0, tf.exp(x)), kept as its logarithm: 0 when
\* x >= 0 and x when x < 0, -inf included; of a NaN the minimum is NaN or
\* its other argument, as the kernel compares
MinimumExp(x) ==
    IF x = NaN THEN {NaN, <<0, 1>>}
    ELSE IF x[1] >= 0 THEN {<<0, 1>>}
    ELSE {x}

\* lines 562-609: the values sentence_bleu can return, exp(score) * bp as
\* the product exp(score) is a root of, the quotient ref_len / hyp_len and
\* the logarithm of bp
SentenceBleu(hyp_, ref_) ==
    LET h == Truncate(hyp_)
        r == Truncate(ref_)
        ratio == FloatDiv(Len(r), Len(h))
    IN  {[score |-> ScoreProduct(NgramOrders, h, r), ratio |-> ratio, log_bp |-> b] :
            b \in MinimumExp(OneMinus(ratio))}

\* a value of SentenceBleu is the float 1.0
IsOne(reward_) == reward_.log_bp = <<0, 1>> /\ reward_.score[1] = reward_.score[2]

\* it is a float that is at most 1.0
AtMostOne(reward_) ==
    /\ reward_.log_bp # NaN
    /\ reward_.log_bp[1] <= 0
    /\ reward_.score[1] <= reward_.score[2]

\* it is a finite float
IsFinite(reward_) == reward_.log_bp # NaN

BleuInit ==
    /\ model = NoneValue
    /\ pc = "sentence_bleu"
    /\ hyp \in BleuSentences
    /\ ref \in BleuSentences
    /\ reward = NoneValue
    /\ BeamIdle
    /\ BatchIdle
    /\ AttentionIdle
    /\ DecoderIdle
    /\ RunIdle
    /\ TrainIdle
    /\ FreezeIdle
    /\ runs = {}
    /\ LossIdle
    /\ LmIdle
    /\ BuildIdle

SentenceBleuCall ==
    /\ pc = "sentence_bleu"
    /\ reward' \in SentenceBleu(hyp, ref)
    /\ pc' = "rewarded"
    /\ UNCHANGED <<model, hyp, ref, beam_vars, batch_vars, attn_vars, decoder_vars,
                   run_vars, train_vars, loss_vars, lm_vars, build_vars,
                   freeze_vars, runs>>

SpecBleu == BleuInit /\ [][SentenceBleuCall]_vars

\* ------------------------------------------ sequence_loss, baseline_loss
\* tf.shape(x)[0] and tf.shape(x)[1] of a tensor kept as a sequence of rows
Shape0(x) == Len(x)

Shape1(x) == Len(x[1])

\* tf.reduce_sum(x, 0) of such a tensor
ReduceSum0(x) == [b \in 1 .. Shape1(x) |-> SumSeq([t \in 1 .. Shape0(x) |-> x[t][b]])]

\* the tensors of time_steps rows and batch_size columns with the entries
\* of values
Tensors(time_steps, batch_size, values) ==
    [1 .. time_steps -> [1 .. batch_size -> values]]

\* decoders.py 503-530 with the default options: the loss as the pair
\* <<cost, divisor>>, crossent being what lines 508-512 give
SequenceLoss(crossent, targets_, weights_) ==
    LET log_perp == ReduceSum0([t \in DOMAIN crossent |->
                                   [b \in DOMAIN crossent[t] |->
                                       crossent[t][b] * weights_[t][b]]])
    IN  <<SumSeq(log_perp), Shape1(targets_)>>

\* decoders.py 533-549 with the default options, reward being broadcast
\* over the rows of baseline
BaselineLoss(baseline, reward_, weights_) ==
    LET batch_size == Shape0(baseline)
        cost == ReduceSum0([t \in DOMAIN baseline |->
                               [b \in DOMAIN baseline[t] |->
                                   (reward_[b] - baseline[t][b])
                                       * (reward_[b] - baseline[t][b]) * weights_[t][b]]])
    IN  <<SumSeq(cost), batch_size>>

\* seq2seq_model.py 118-126 and 157-173: the tensors of a run, time-major,
\* the entries small integers
LossArgs ==
    UNION {[crossent : Tensors(time_steps, batch_size, {0, 1}),
            targets : Tensors(time_steps, batch_size, {0}),
            target_weights : Tensors(time_steps, batch_size, {0, 1}),
            baseline : Tensors(time_steps, batch_size, {0, 1}),
            reward : [1 .. batch_size -> {0, 1}]] :
              time_steps \in 1 .. MaxTimeSteps, batch_size \in 1 .. MaxBatch}

LossInit ==
    /\ model = NoneValue
    /\ pc = "loss"
    /\ loss_args \in LossArgs
    /\ losses = NoneValue
    /\ BeamIdle
    /\ BatchIdle
    /\ AttentionIdle
    /\ DecoderIdle
    /\ RunIdle
    /\ TrainIdle
    /\ FreezeIdle
    /\ runs = {}
    /\ RewardIdle
    /\ LmIdle
    /\ BuildIdle

\* seq2seq_model.py 141-144 and 178-179: self.xent_loss and
\* self.baseline_loss of a run
LossCall ==
    /\ pc = "loss"
    /\ losses' =
          [xent_loss |-> SequenceLoss(loss_args.crossent, loss_args.targets,
                                      loss_args.target_weights),
           baseline_loss |-> BaselineLoss(loss_args.baseline, loss_args.reward,
                                          loss_args.target_weights)]
    /\ pc' = "lost"
    /\ UNCHANGED <<model, loss_args, beam_vars, batch_vars, attn_vars, decoder_vars,
                   run_vars, train_vars, reward_vars, lm_vars, build_vars,
                   freeze_vars, runs>>

SpecLoss == LossInit /\ [][LossCall]_vars

\* --------------------------------- beam_search_decoding with ngrams
\* a weight is a number of LmDenom-ths; 0.2 is line 459's default
LmDenom == 10

DefaultLmWeight == 2

\* lm_weight=None of the constructor, or a weight
LmWeights == {Unset, 0, DefaultLmWeight, 5, LmDenom}

\* x or y of Python, x being None or a number
Or(x, y) == IF x = Unset \/ x = 0 THEN y ELSE x

\* seq2seq_model.py 459-460: the weights of np.average, the sessions' and
\* then the language model's, as quotients
InterpolationWeights(self_lm_weight, n_session) ==
    LET lm_weight == Or(self_lm_weight, DefaultLmWeight)
    IN  [s \in 1 .. n_session |-> <<LmDenom - lm_weight, n_session * LmDenom>>]
            \o << <<lm_weight, LmDenom>> >>

\* lines 466-467, np.average(xs, axis=0, weights=ws) for one candidate:
\* sum(w * x) / sum(w), as a quotient
WeightedAverage(xs, ws) ==
    LET total == FracSum([k \in DOMAIN xs |-> <<ws[k][1] * xs[k], ws[k][2]>>])
        scale == FracSum(ws)
    IN  <<total[1] * scale[2], total[2] * scale[1]>>

\* self.lm_weight, the number of sessions, and for one candidate the
\* sessions' -log probabilities and the score of the language model, finite
LmArgs ==
    UNION {[lm_weight : LmWeights,
            session : {n},
            neg_logs : [1 .. n -> {NegLog(p) : p \in {1, 2, 4}}],
            lm_score : {NegLog(p) : p \in {1, 2, 4}}] : n \in 1 .. MaxSessions}

LmInit ==
    /\ model = NoneValue
    /\ pc = "average"
    /\ lm_args \in LmArgs
    /\ lm_average = NoneValue
    /\ BeamIdle
    /\ BatchIdle
    /\ AttentionIdle
    /\ DecoderIdle
    /\ RunIdle
    /\ TrainIdle
    /\ FreezeIdle
    /\ runs = {}
    /\ RewardIdle
    /\ LossIdle
    /\ BuildIdle

\* lines 459-467 for one candidate, ngrams being given
LmAverage ==
    /\ pc = "average"
    /\ LET ws == InterpolationWeights(lm_args.lm_weight, lm_args.session)
       IN  lm_average' =
              [weights |-> ws,
               average |-> WeightedAverage(Append(lm_args.neg_logs, lm_args.lm_score), ws)]
    /\ pc' = "averaged"
    /\ UNCHANGED <<model, lm_args, beam_vars, batch_vars, attn_vars, decoder_vars,
                   run_vars, train_vars, reward_vars, loss_vars, build_vars,
                   freeze_vars, runs>>

SpecLm == LmInit /\ [][LmAverage]_vars

\* ------------------------------------------------ Seq2SeqModel.__init__
\* the arguments of the constructor that decide what it builds; num_samples
\* is 0, less than the vocabulary size or not
Configs ==
    [encoder_count : 1 .. MaxEncoders,
     cell_size : 1 .. MaxCellSize,
     attention : BOOLEAN,
     dropout_rate : 0 .. MaxDropoutRate,
     num_samples : {0, 1, VocabSize}]

\* decoders.py 500: what attention_decoder returns
AttentionDecoderValues ==
    <<"proj_outputs", "None", "decoder_outputs", "beam_tensors", "samples">>

\* seq2seq_model.py 135: the targets its result is assigned to
DecoderTargets ==
    <<"outputs", "attention_weights", "decoder_states", "beam_tensors">>

\* seq2seq_model.py 141-144: the keywords sequence_loss is called with
SequenceLossKeywords == {"logits", "targets", "weights", "softmax_loss_function"}

\* decoders.py 503-504: the parameters of sequence_loss, which takes no
\* **kwargs
SequenceLossParameters ==
    {"logits", "targets", "weights", "average_across_timesteps",
     "average_across_batch", "reward"}

\* the tuple assignment of Python: the names bound, when there are as many
\* values as targets
Unpack(targets, values) == {<<targets[k], values[k]>> : k \in DOMAIN targets}

BuildInit ==
    /\ model = NoneValue
    /\ pc = "projection"
    /\ config \in Configs
    /\ graph = <<>>
    /\ attrs = {}
    /\ error = NoError
    /\ BeamIdle
    /\ BatchIdle
    /\ AttentionIdle
    /\ DecoderIdle
    /\ RunIdle
    /\ TrainIdle
    /\ FreezeIdle
    /\ runs = {}
    /\ RewardIdle
    /\ LossIdle
    /\ LmIdle

\* seq2seq_model.py 67-81: the output projection of sampled softmax
BuildProjection ==
    /\ pc = "projection"
    /\ graph' = IF config.num_samples = 0 \/ config.num_samples >= VocabSize
                THEN graph
                ELSE graph \o <<"proj_w", "proj_b">>
    /\ pc' = "dropout"
    /\ UNCHANGED <<model, config, attrs, error, beam_vars, batch_vars, attn_vars,
                   decoder_vars, run_vars, train_vars, reward_vars, loss_vars, lm_vars,
                   freeze_vars, runs>>

\* lines 83-91: the dropout variable with its assignments, and the constants
BuildDropout ==
    /\ pc = "dropout"
    /\ graph' = (IF config.dropout_rate > 0
                 THEN graph \o <<"dropout_keep_prob", "dropout_off", "dropout_on">>
                 ELSE graph) \o <<"feed_previous", "use_reinforce">>
    /\ pc' = "placeholders"
    /\ UNCHANGED <<model, config, attrs, error, beam_vars, batch_vars, attn_vars,
                   decoder_vars, run_vars, train_vars, reward_vars, loss_vars, lm_vars,
                   freeze_vars, runs>>

\* lines 103-126: two placeholders for each encoder, five for the decoder
BuildPlaceholders ==
    /\ pc = "placeholders"
    /\ graph' = graph \o Repeat("placeholder", 2 * config.encoder_count + 5)
    /\ pc' = "multi_encoder"
    /\ UNCHANGED <<model, config, attrs, error, beam_vars, batch_vars, attn_vars,
                   decoder_vars, run_vars, train_vars, reward_vars, loss_vars, lm_vars,
                   freeze_vars, runs>>

\* line 132, decoders.multi_encoder
BuildEncoders ==
    /\ pc = "multi_encoder"
    /\ graph' = graph \o Repeat("encoder", config.encoder_count)
    /\ pc' = "decoder"
    /\ UNCHANGED <<model, config, attrs, error, beam_vars, batch_vars, attn_vars,
                   decoder_vars, run_vars, train_vars, reward_vars, loss_vars, lm_vars,
                   freeze_vars, runs>>

\* lines 133-139: the call of the decoder and the assignment of its result.
\* decoders.decoder raises (decoders.py 334-335); attention_decoder asserts
\* an even cell size before it builds anything (360) and returns the five
\* values of line 500.  The constructor goes on to line 141 when the
\* assignment binds.
BuildDecoder ==
    /\ pc = "decoder"
    /\ IF ~config.attention
       THEN /\ error' = "NotImplementedError"
            /\ UNCHANGED <<graph, attrs>>
       ELSE IF config.cell_size % 2 # 0
       THEN /\ error' = "AssertionError"
            /\ UNCHANGED <<graph, attrs>>
       ELSE /\ graph' = Append(graph, "attention_decoder")
            /\ IF Len(DecoderTargets) = Len(AttentionDecoderValues)
               THEN /\ attrs' = Unpack(DecoderTargets, AttentionDecoderValues)
                    /\ UNCHANGED error
               ELSE /\ error' = "ValueError"
                    /\ UNCHANGED attrs
    /\ pc' = IF error' = NoError THEN "sequence_loss" ELSE "error"
    /\ UNCHANGED <<model, config, beam_vars, batch_vars, attn_vars,
                   decoder_vars, run_vars, train_vars, reward_vars, loss_vars, lm_vars,
                   freeze_vars, runs>>

BuildNext ==
    BuildProjection \/ BuildDropout \/ BuildPlaceholders \/ BuildEncoders \/ BuildDecoder

SpecBuild == BuildInit /\ [][BuildNext]_vars

Init == BeamInit

Next == BeamStep \/ BeamStepFails \/ BeamReturn

Spec == Init /\ [][Next]_vars

\* the scenario of C8, followed as far as MaxWork allows
ScenarioNext ==
    \/ Work(beam_width, session, step + 1) <= MaxWork /\ BeamStep
    \/ BeamStepFails
    \/ BeamReturn

SpecScenario == ScenarioInit /\ [][ScenarioNext]_vars

\* ------------------------------------------------------------ claims
Last(h) == h[Len(h)]

EndsWithEOS(h) == Len(h) > 0 /\ Last(h) = EOS_ID

\* the 0-based candidate id f is the extension of live row f \div VocabSize
\* by token f % VocabSize
HypIdOf(f) == f \div VocabSize

TokenOf(f) == f % VocabSize

IsPrefix(f, h) == Len(f) <= Len(h) /\ SubSeq(h, 1, Len(f)) = f

\* C1: after every beam step the live hypotheses plus the finished ones
\* number at most the beam width the caller passed, and the live ones at
\* most the current, already decremented, beam width.
C1_BeamWithinWidth ==
    step > 0 =>
        /\ Len(hypotheses) + Len(finished_hypotheses) <= beam_width
        /\ Len(hypotheses) <= beam_size

C1_Witness ==
    /\ step = 2
    /\ beam_width = 2
    /\ Len(hypotheses) = 1
    /\ Len(finished_hypotheses) = 1
    /\ beam_size = 1

\* C2: every hypothesis beam_search_decoding returns ends with the
\* end-of-sequence token or has exactly max_output_len tokens.
C2_ReturnedComplete ==
    pc = "done" =>
        \A k \in DOMAIN result[1] :
            EndsWithEOS(result[1][k]) \/ Len(result[1][k]) = model.max_output_len

C2_Witness ==
    /\ pc = "done"
    /\ \E k \in DOMAIN result[1] :
          ~EndsWithEOS(result[1][k]) /\ Len(result[1][k]) = model.max_output_len
    /\ \E k \in DOMAIN result[1] :
          EndsWithEOS(result[1][k]) /\ Len(result[1][k]) < model.max_output_len

\* C3: a selected candidate whose new token is the end-of-sequence token
\* is appended to the finished hypotheses, is not in the live beam and is
\* a prefix of no live hypothesis afterwards, and lowers the beam width by
\* exactly one; the beam width never increases.
C3_StepRetires ==
    LET eos == {j \in DOMAIN flat_ids' : TokenOf(flat_ids'[j]) = EOS_ID}
    IN  /\ beam_size' = beam_size - Cardinality(eos)
        /\ Len(finished_hypotheses') = Len(finished_hypotheses) + Cardinality(eos)
        /\ IsPrefix(finished_hypotheses, finished_hypotheses')
        /\ \A j \in eos :
              Append(hypotheses[HypIdOf(flat_ids'[j]) + 1], EOS_ID)
                 \in {finished_hypotheses'[k] :
                         k \in (Len(finished_hypotheses) + 1) .. Len(finished_hypotheses')}
        /\ \A k \in DOMAIN hypotheses' :
              /\ \A t \in DOMAIN hypotheses'[k] : hypotheses'[k][t] # EOS_ID
              /\ \A f \in DOMAIN finished_hypotheses' :
                    ~IsPrefix(finished_hypotheses'[f], hypotheses'[k])

C3_FinishedRetired ==
    [][/\ beam_size' <= beam_size
       /\ step' = step + 1 => C3_StepRetires]_vars

C3_Witness ==
    /\ step = 2
    /\ pc = "exit"
    /\ \E f \in DOMAIN finished_hypotheses : Len(finished_hypotheses[f]) = 1
    /\ \E f \in DOMAIN finished_hypotheses : Len(finished_hypotheses[f]) = 2
    /\ beam_size = 0

\* C5: the candidates a step keeps are the min(B, |live| * vocab) cheapest
\* of all |live| * vocab extensions, B the beam width at the start of the
\* step: no discarded extension is strictly cheaper than a kept one, and
\* each kept candidate is its parent hypothesis followed by one token.
C5_StepKeepsBest ==
    LET n == Len(hypotheses) * VocabSize
        kept == {flat_ids'[j] : j \in DOMAIN flat_ids'}
        fresh == (Len(finished_hypotheses) + 1) .. Len(finished_hypotheses')
        new == {<<hypotheses'[k], scores'[k]>> : k \in DOMAIN hypotheses'}
               \cup {<<finished_hypotheses'[k], finished_scores'[k]>> : k \in fresh}
    IN  /\ Len(scores_') = n
        /\ Len(flat_ids') = Min(beam_size, n)
        /\ Cardinality(kept) = Len(flat_ids')
        /\ kept \subseteq 0 .. (n - 1)
        /\ \A f \in kept : \A g \in (0 .. (n - 1)) \ kept :
              ~Less(scores_'[g + 1], scores_'[f + 1])
        /\ new = {<<Append(hypotheses[HypIdOf(f) + 1], TokenOf(f)), scores_'[f + 1]>> :
                     f \in kept}
        /\ Len(hypotheses') + Len(finished_hypotheses') - Len(finished_hypotheses)
              = Len(flat_ids')

C5_KeepsBest == [][step' = step + 1 => C5_StepKeepsBest]_vars

C5_Witness ==
    /\ step = 2
    /\ Len(scores_) = 2 * VocabSize
    /\ Len(flat_ids) = 2
    /\ \E g \in 0 .. (Len(scores_) - 1) :
          /\ \A j \in DOMAIN flat_ids : flat_ids[j] # g
          /\ Less(scores_[flat_ids[2] + 1], scores_[g + 1])
    /\ \E g \in 0 .. (Len(scores_) - 1) :
          /\ \A j \in DOMAIN flat_ids : flat_ids[j] # g
          /\ scores_[flat_ids[2] + 1] = scores_[g + 1]
    /\ HypIdOf(flat_ids[1]) # HypIdOf(flat_ids[2])

\* C6: with no language model, the score of a candidate is its parent's
\* score minus the arithmetic mean, over the sessions only, of the token's
\* log-probability; with one session the increment is that model's
\* negative log-probability of the token.
C6_StepMeanOverSessions ==
    \A f \in 0 .. (Len(hypotheses) * VocabSize - 1) :
        LET neg_logs == [s \in 1 .. session |->
                            NegLog(decoder_output'[s][HypIdOf(f) + 1][TokenOf(f)])]
            mean == IF \E s \in 1 .. session : neg_logs[s] = Inf THEN Inf
                    ELSE SumSeq(neg_logs) \div session
        IN  scores_'[f + 1] = Add(scores[HypIdOf(f) + 1], mean)

C6_MeanOverSessions == [][step' = step + 1 => C6_StepMeanOverSessions]_vars

\* C7: hypotheses and scores are returned in the same order, ascending in
\* the final score: the cumulative score divided by the token count to
\* the power len_normalization when that is positive, the cumulative score
\* itself otherwise.
C7_FinalScore(h, score) ==
    IF model.len_normalization > 0
    THEN <<score, Pow(Len(h), model.len_normalization)>>
    ELSE <<score, 1>>

C7_SortedNormalized ==
    pc = "done" =>
        /\ Len(result[1]) = Len(result[2])
        /\ \A j, k \in DOMAIN result[2] : j < k => FracLeq(result[2][j], result[2][k])
        /\ \A k \in DOMAIN result[1] :
              \/ \E j \in DOMAIN hypotheses :
                    /\ hypotheses[j] = result[1][k]
                    /\ result[2][k] = C7_FinalScore(hypotheses[j], scores[j])
              \/ \E j \in DOMAIN finished_hypotheses :
                    /\ finished_hypotheses[j] = result[1][k]
                    /\ result[2][k] = C7_FinalScore(finished_hypotheses[j], finished_scores[j])

C7_Witness ==
    /\ pc = "done"
    /\ model.len_normalization > 0
    /\ Len(result[1]) = 2
    /\ Len(result[1][1]) = 2
    /\ Len(result[1][2]) = 1
    /\ result[2][1][1] # Inf
    /\ result[2][2][1] # Inf
    /\ result[2][1][1] > result[2][2][1]

\* C9: the recurrent state carried forward for a live hypothesis after it
\* is extended with token w is the state of the cell advanced on w from its
\* parent's state, so that each live hypothesis's state is the one the
\* teacher-forced decoder has after consuming exactly its tokens.  Stated
\* step by step, for the rows whose distribution has a single most
\* probable token in every session, so that no tie is involved.
C9_StepAdvancesOnSelected ==
    \A k \in DOMAIN hypotheses' :
        \A p \in DOMAIN hypotheses :
            \A w \in Tokens :
                (/\ hypotheses'[k] = Append(hypotheses[p], w)
                 /\ \A s \in 1 .. session : Cardinality(ArgMax(decoder_output'[s][p])) = 1)
                => \A s \in 1 .. session : state'[s][k] = Cell(state[s][p], w)

C9_StateFollowsHypothesis == [][step' = step + 1 => C9_StepAdvancesOnSelected]_vars

\* C4: the call ends; the step loop runs at most max_output_len steps and
\* is left at the end of the first step after which the beam width is zero
\* or less; what is returned holds every live and every finished
\* hypothesis, with its score.
C4_NothingLost ==
    /\ Len(result[1]) = Len(hypotheses) + Len(finished_hypotheses)
    /\ \A j \in DOMAIN hypotheses :
          \E k \in DOMAIN result[1] :
              result[1][k] = hypotheses[j] /\ result[2][k][1] = scores[j]
    /\ \A j \in DOMAIN finished_hypotheses :
          \E k \in DOMAIN result[1] :
              result[1][k] = finished_hypotheses[j] /\ result[2][k][1] = finished_scores[j]

C4_Bounded ==
    /\ step <= model.max_output_len
    /\ pc = "loop" => beam_size > 0 /\ step < model.max_output_len
    /\ pc \in {"exit", "done"} => beam_size <= 0 \/ step = model.max_output_len
    /\ pc = "done" => C4_NothingLost
    /\ pc = "loop" => ENABLED (BeamStep \/ BeamStepFails)
    /\ pc = "exit" => ENABLED BeamReturn

\* every step is an iteration of the loop, which counts towards
\* max_output_len, or ends the call
C4_Variant ==
    \/ pc = "loop" /\ pc' \in {"loop", "exit"} /\ step' = step + 1
    \/ pc = "loop" /\ pc' = "error" /\ step' = step
    \/ pc = "exit" /\ pc' = "done" /\ step' = step

C4_Terminates == []C4_Bounded /\ [][C4_Variant]_vars

C4_Witness ==
    /\ pc = "done"
    /\ step = model.max_output_len
    /\ beam_size = 1
    /\ Len(hypotheses) = 1
    /\ Len(finished_hypotheses) = 1
    /\ Len(result[1]) = 2

\* C8: beam width 2, vocabulary size 3, one model: after a beam step in
\* which both selected candidates are the end-of-sequence token, the live
\* beam is empty, exactly 2 hypotheses are finished, and the loop is left
\* at that step, before max_output_len steps have run.
C8_StepBothFinish ==
    (/\ beam_width = 2
     /\ session = 1
     /\ Len(flat_ids') = 2
     /\ \A j \in DOMAIN flat_ids' : TokenOf(flat_ids'[j]) = EOS_ID)
    => /\ hypotheses' = <<>>
       /\ Len(finished_hypotheses') = 2
       /\ pc' = "exit"

C8_BothFinish ==
    [][/\ step' = step + 1 => C8_StepBothFinish
       /\ pc = "exit" => pc' = "done" /\ step' = step]_vars

C8_Witness ==
    /\ pc = "done"
    /\ beam_width = 2
    /\ session = 1
    /\ step < model.max_output_len
    /\ hypotheses = <<>>
    /\ Len(finished_hypotheses) = 2
    /\ \A j \in DOMAIN flat_ids : TokenOf(flat_ids[j]) = EOS_ID
    /\ Len(flat_ids) = 2
    /\ Len(result[1]) = 2

\* C10: for a batch built with decoding=False, the target weights sum to
\* the sum over the samples of the length of the truncated target plus one
\* for the end marker, which is the sum of decoder_input_length.
C10_TrueLengths ==
    [b \in DOMAIN data |-> Min(Len(data[b][Len(data[b])]), model.max_output_len) + 1]

C10_WeightsSumToLengths ==
    (pc = "built" /\ ~decoding) =>
        /\ SumSeq([t \in DOMAIN batch.target_weights |-> SumSeq(batch.target_weights[t])])
              = SumSeq(C10_TrueLengths)
        /\ SumSeq(batch.decoder_input_length) = SumSeq(C10_TrueLengths)

C10_Witness ==
    /\ pc = "built"
    /\ ~decoding
    /\ Len(data) = 2
    /\ Len(data[1][Len(data[1])]) = 0
    /\ Len(data[2][Len(data[2])]) > model.max_output_len
    /\ \E t \in DOMAIN batch.target_weights : batch.target_weights[t][1] = 0

\* C11: in a batch built with decoding=False, for every sample with
\* truncated target t of length n: decoder_inputs is BOS followed by t,
\* targets is t followed by EOS (so targets[k] = decoder_inputs[k+1] for
\* k < n and targets[n] = EOS), and target_weights is 1 at positions 0..n
\* and 0 at every later position.
C11_Target(b) == Slice(data[b][Len(data[b])], model.max_output_len)

C11_ShiftedTargets ==
    (pc = "built" /\ ~decoding) =>
        \A b \in DOMAIN data :
            LET t == C11_Target(b)
                n == Len(t)
                steps == Len(batch.targets)
            IN  /\ Len(batch.decoder_inputs) = steps
                /\ Len(batch.target_weights) = steps
                /\ n + 1 <= steps
                /\ batch.decoder_inputs[1][b] = BOS_ID
                /\ \A k \in 1 .. n :
                      /\ batch.decoder_inputs[k + 1][b] = t[k]
                      /\ batch.targets[k][b] = t[k]
                      /\ batch.targets[k][b] = batch.decoder_inputs[k + 1][b]
                /\ batch.targets[n + 1][b] = EOS_ID
                /\ \A k \in 1 .. steps :
                      batch.target_weights[k][b] = IF k <= n + 1 THEN 1 ELSE 0

C11_Witness ==
    /\ pc = "built"
    /\ ~decoding
    /\ Len(data) = 2
    /\ C11_Target(1) = <<0, 0>>
    /\ C11_Target(2) = <<>>
    /\ [k \in 1 .. 3 |-> batch.decoder_inputs[k][1]] = <<BOS_ID, 0, 0>>
    /\ [k \in 1 .. 3 |-> batch.targets[k][1]] = <<0, 0, EOS_ID>>
    /\ [k \in 1 .. 3 |-> batch.target_weights[k][1]] = <<1, 1, 1>>
    /\ [k \in 1 .. 3 |-> batch.target_weights[k][2]] = <<1, 0, 0>>

\* C12: in every batch, every padding position of a token-id encoder
\* input holds the pad token of embedding-matrix index 0, and every padding
\* position of a binary encoder input holds the all-zero vector.
C12_SourceLength(b, e) ==
    IF model.max_input_len # Unset
    THEN Min(Len(data[b][e]), model.max_input_len)
    ELSE Len(data[b][e])

C12_PadIsIndexZero ==
    pc = "built" =>
        \A e \in 1 .. model.encoder_count : \A b \in DOMAIN data :
            \A k \in (C12_SourceLength(b, e) + 1) .. Len(batch.encoder_inputs[e][b]) :
                batch.encoder_inputs[e][b][k] =
                    IF model.binary[e] THEN Repeat(0, model.embedding_size) ELSE 0

\* C13: in every batch all rows of an encoder input have one length and
\* all target rows one length; an encoder's effective length is
\* min(len(source), max_input_len when configured) + 1 and at most the
\* encoder's row length; with decoding=False the decoder's effective length
\* is min(len(target), max_output_len) + 1 and at most the number of target
\* time steps.
C13_LengthsWithinRows ==
    pc = "built" =>
        /\ \A e \in 1 .. model.encoder_count : \A b \in DOMAIN data :
              /\ Len(batch.encoder_inputs[e][b]) = Len(batch.encoder_inputs[e][1])
              /\ batch.encoder_input_length[e][b] = C12_SourceLength(b, e) + 1
              /\ batch.encoder_input_length[e][b] <= Len(batch.encoder_inputs[e][b])
        /\ \A t \in DOMAIN batch.targets :
              /\ DOMAIN batch.targets[t] = DOMAIN data
              /\ DOMAIN batch.decoder_inputs[t] = DOMAIN data
        /\ ~decoding =>
              \A b \in DOMAIN data :
                  /\ batch.decoder_input_length[b]
                        = Min(Len(data[b][Len(data[b])]), model.max_output_len) + 1
                  /\ batch.decoder_input_length[b] <= Len(batch.targets)

C13_Witness ==
    /\ pc = "built"
    /\ ~decoding
    /\ model.max_input_len = 1
    /\ Len(data) = 2
    /\ Len(data[1][1]) = 2
    /\ Len(data[2][1]) = 0
    /\ batch.encoder_input_length[1] = <<2, 1>>
    /\ Len(batch.encoder_inputs[1][2]) = 2
    /\ Len(data[1][2]) > model.max_output_len
    /\ batch.decoder_input_length[2] < Len(batch.targets)

\* C14: with global and with local attention, the weights returned are
\* exactly 0 at every masked source position (beyond the true source
\* length, or outside the local window) and sum to 1 over the others.
C14_Masked(a, j) ==
    \/ j > a.encoder_input_length
    \/ a.attention_window_size > 0 /\ WindowMask(j - 1, a.pt, a.attention_window_size) = 0

C14_MaskedWeightsZero ==
    pc = "attended" =>
        LET open == {j \in 1 .. attn_args.attn_length : ~C14_Masked(attn_args, j)}
            kept == [j \in 1 .. attn_args.attn_length |->
                        IF j \in open THEN attn_weights[j] ELSE <<0, attn_weights[j][2]>>]
        IN  /\ \A j \in 1 .. attn_args.attn_length :
                  C14_Masked(attn_args, j) => attn_weights[j][1] = 0
            /\ FracSum(kept)[1] = FracSum(kept)[2]

\* C20: at each decoder step the ground-truth next token is fed if and
\* only if the step is not the final one and the uniform draw is at least
\* feed_previous; otherwise the argmax token when feed_argmax is set, a
\* token sampled from the softmax when it is not.  So the ground truth is
\* never read on the final step, never with feed_previous = 1, and always
\* on a non-final step with feed_previous = 0.
C20_StepPolicy ==
    LET final == time = Len(inputs) - 1
        logits == proj_outputs'[time + 1]
        greatest == {t \in Tokens : \A u \in Tokens : logits[u] <= logits[t]}
    IN  /\ pc' # "error"
        /\ time' = time + 1
        /\ (branch' = "target") <=> (~final /\ draw' >= feed_previous)
        /\ branch' = "target" =>
              /\ time + 2 <= Len(inputs)
              /\ samples'[time + 1] = inputs[time + 2]
        /\ (branch' # "target" /\ feed_argmax) =>
              /\ branch' = "argmax"
              /\ samples'[time + 1] \in greatest
        /\ (branch' # "target" /\ ~feed_argmax) =>
              /\ branch' = "softmax"
              /\ samples'[time + 1] \in Tokens
        /\ final => branch' # "target"
        /\ feed_previous = ProbDenom => branch' # "target"
        /\ (feed_previous = 0 /\ ~final) => branch' = "target"
        /\ input_' = samples'[time + 1]

C20_TokenSelection == [][pc = "decode" => C20_StepPolicy]_vars

C20_Witness ==
    /\ pc = "decoded"
    /\ time = 2
    /\ feed_previous = 2
    /\ ~feed_argmax
    /\ samples[1] = inputs[2]
    /\ \E u \in Tokens : proj_outputs[1][u] > proj_outputs[1][samples[1]]
    /\ branch = "softmax"
    /\ draw >= feed_previous
    /\ \E u \in Tokens : proj_outputs[2][u] > proj_outputs[2][samples[2]]

\* C15: if greedy decoding (feed_previous = 1) produces hypothesis h, the
\* decoder run with h as ground truth and feed_previous = 0 selects at
\* every step both runs execute the token greedy decoding selected, and
\* yields the same logits.
C15_SameRun ==
    \A k \in 1 .. Min(time, Len(greedy.outputs)) :
        /\ samples[k] = greedy.samples[k]
        /\ proj_outputs[k] = greedy.outputs[k]

C15_SingleGreatest ==
    \A k \in DOMAIN greedy.outputs :
        \A t, u \in Tokens :
            (/\ \A v \in Tokens : greedy.outputs[k][v] <= greedy.outputs[k][t]
             /\ \A v \in Tokens : greedy.outputs[k][v] <= greedy.outputs[k][u]) => t = u

C16_InPass ==
    \/ call = "greedy_decoding" /\ time > 0
    \/ call = "beam_search_decoding" /\ step > 0

C16_DropoutDisabled == \A s \in DOMAIN dropout : dropout[s] = ProbDenom

C17_StepFrame ==
    IF update_model'
    THEN /\ Len(params') = Len(params) + 1
         /\ SubSeq(params', 1, Len(params)) = params
         /\ accumulators' \in {accumulators, accumulators + 1}
         /\ accumulators' = accumulators <=> model.optimizer = "sgd"
         /\ global_step' = global_step + 1
         /\ baseline_params' = baseline_params
    ELSE /\ fetches' = {"loss", "gradient"}
         /\ params' = params
         /\ accumulators' = accumulators
         /\ global_step' = global_step
         /\ baseline_params' = baseline_params

C17_UpdateModelFrame == [][call' = "step" => C17_StepFrame]_vars

C17_Witness ==
    /\ call = "step"
    /\ ~update_model
    /\ global_step = 1
    /\ accumulators = 1
    /\ params = <<"xent_loss">>

\* C18: in reinforce_step the update of the model runs exactly when
\* update_model is true and the update of the baseline exactly when
\* update_baseline is true, each changing only its own parameters (the
\* baseline's when the model has one), and the global step advances by one
\* exactly when update_model is true, so that a baseline-only call leaves it.
C18_ReinforceFrame ==
    /\ "updates" \in fetches' <=> update_model'
    /\ "baseline_updates" \in fetches' <=> update_baseline'
    /\ params' = (IF update_model' THEN Append(params, "reinforce_loss") ELSE params)
    /\ accumulators' # accumulators => update_model'
    /\ baseline_params' =
          (IF update_baseline' /\ model.reinforce_baseline
           THEN Append(baseline_params, "baseline_loss")
           ELSE baseline_params)
    /\ global_step' = (IF update_model' THEN global_step + 1 ELSE global_step)

C18_IndependentUpdates == [][call' = "reinforce_step" => C18_ReinforceFrame]_vars

C18_Witness ==
    /\ call = "reinforce_step"
    /\ ~update_model
    /\ update_baseline
    /\ model.reinforce_baseline
    /\ model.optimizer = "adam"
    /\ baseline_params = <<"baseline_loss", "baseline_loss">>
    /\ global_step = 0
    /\ params = <<>>

\* C19: for every sampled output sequence the weights reinforce_step feeds
\* are 1 up to and including the first end-of-sequence marker and 0 after
\* it, all 1 when there is none, and the reward is computed on the output
\* cut after its first end-of-sequence marker and on the reference cut to
\* its true length, the target tokens followed by the end marker.
C19_WeightsAndReward ==
    call = "reinforce_step" =>
        \A b \in 1 .. Len(data) :
            LET output_ == Column(outputs, b)
                ends == {t \in 1 .. Len(output_) : output_[t] = EOS_ID}
            IN  /\ \A t \in 1 .. Len(output_) :
                      weights[t][b] = (IF \E u \in ends : u < t THEN 0 ELSE 1)
                /\ IsPrefix(rewards[b][1], output_)
                /\ \A t \in 1 .. Len(rewards[b][1]) :
                      rewards[b][1][t] = EOS_ID <=> t \in ends /\ t = Len(rewards[b][1])
                /\ ends = {} => rewards[b][1] = output_
                /\ ends # {} => EndsWithEOS(rewards[b][1])
                /\ rewards[b][2] = Append(C11_Target(b), EOS_ID)

C19_Witness ==
    /\ call = "reinforce_step"
    /\ Len(data) = 2
    /\ Column(outputs, 1) = <<EOS_ID, EOS_ID>>
    /\ Column(weights, 1) = <<1, 0>>
    /\ rewards[1][1] = <<EOS_ID>>
    /\ Column(outputs, 2) = <<0, 2>>
    /\ Column(weights, 2) = <<1, 1>>
    /\ Len(data[2][2]) > model.max_output_len
    /\ rewards[2] = <<(<<0, 2>>), (<<data[2][2][1], EOS_ID>>)>>

\* C21: sentence_bleu returns 1.0 when the hypothesis and the reference
\* are the same non-empty sequence, and never returns more than 1.0.
C21_MaximumAtIdentity ==
    reward # NoneValue =>
        /\ AtMostOne(reward)
        /\ (hyp = ref /\ hyp # <<>>) => IsOne(reward)

\* C26: when the hypothesis is empty after the cut at its first
\* end-of-sequence marker, sentence_bleu computes the brevity penalty
\* without dividing by zero and returns a finite value.
C26_EmptyHypothesisDefined ==
    (reward # NoneValue /\ Truncate(hyp) = <<>>) =>
        /\ reward.ratio[2] # 0
        /\ IsFinite(reward)

\* C25: with the default options the baseline loss is the sum over the
\* time steps and the samples of weight * (reward - baseline)^2 divided by
\* the number of samples, the divisor of sequence_loss.
C25_BaselineAveragedAsXent ==
    losses # NoneValue =>
        LET batch_size == Len(loss_args.reward)
            total ==
                SumSeq([t \in DOMAIN loss_args.baseline |->
                    SumSeq([b \in 1 .. batch_size |->
                        loss_args.target_weights[t][b]
                            * (loss_args.reward[b] - loss_args.baseline[t][b])
                            * (loss_args.reward[b] - loss_args.baseline[t][b])])])
        IN  /\ losses.baseline_loss[1] * batch_size = total * losses.baseline_loss[2]
            /\ losses.baseline_loss[2] = losses.xent_loss[2]
            /\ losses.xent_loss[2] = batch_size

\* C29: in beam_search_decoding, whatever the number of encoders, an
\* iteration of the step loop feeds the previous output snapshot exactly
\* when its step index is greater than 0, no iteration fails for lack of a
\* snapshot, and each iteration is the pass of one step index.
C29_IterationFeedsSnapshot ==
    /\ pc' # "error"
    /\ FeedsOutput(i') <=> step > 0
    /\ step' = step + 1

C29_SnapshotFedAfterFirst == [][pc = "loop" => C29_IterationFeedsSnapshot]_vars

\* C27: with a language model given, the weight of its score is the
\* configured lm_weight whenever one is configured, 0 included, and 0.2
\* only when none is; each of the n sessions gets (1 - lm_weight) / n, and
\* the weights sum to 1.
C27_ConfiguredLmWeight ==
    lm_average # NoneValue =>
        LET n == lm_args.session
            lm_weight ==
                IF lm_args.lm_weight = Unset THEN DefaultLmWeight ELSE lm_args.lm_weight
            ws == lm_average.weights
        IN  /\ Len(ws) = n + 1
            /\ ws[n + 1][1] * LmDenom = lm_weight * ws[n + 1][2]
            /\ \A s \in 1 .. n :
                  ws[s][1] * n * LmDenom = (LmDenom - lm_weight) * ws[s][2]
            /\ FracSum(ws)[1] = FracSum(ws)[2]

\* C22: the constructor of a model whose decoder cell size is odd raises,
\* and it raises before it has built any part of the computation graph.
C22_OddCellSizeFailsFast ==
    (config # NoneValue /\ config.cell_size % 2 # 0) =>
        /\ graph = <<>>
        /\ pc # "sequence_loss"

\* C30: the constructor of a model with attention and an even decoder cell
\* size does not raise: the assignment of line 135 binds the values
\* attention_decoder returns, one to a target, and sequence_loss accepts
\* every keyword it is called with.
C30_ConstructorCompletes ==
    (/\ config # NoneValue
     /\ config.attention
     /\ config.cell_size % 2 = 0
     /\ pc \in {"sequence_loss", "error"}) =>
        /\ error = NoError
        /\ attrs = Unpack(DecoderTargets, AttentionDecoderValues)
        /\ SequenceLossKeywords \subseteq SequenceLossParameters

\* C23: the decoder loop makes exactly one step for each time index
\* 0 .. time_steps - 1 and does not stop at a sampled EOS: a step advances the
\* time by one and appends one sample and one output, the loop is over
\* exactly when the time reaches time_steps, and what greedy_decoding returns
\* has exactly max_output_len tokens, those after the first EOS included.
C23_OneStepPerIndex ==
    pc = "decode" =>
        /\ time' = time + 1
        /\ Len(samples') = time'
        /\ Len(proj_outputs') = time'
        /\ (pc' = "decoded") <=> (time' = Len(inputs))

C23_ReturnsMaxOutputLen ==
    /\ pc = "decoded" => time = Len(inputs)
    /\ greedy # NoneValue =>
          /\ Len(greedy.hypothesis) = model.max_output_len
          /\ Len(greedy.samples) = model.max_output_len

C23_NeverStopsEarly == [][C23_OneStepPerIndex]_vars /\ []C23_ReturnsMaxOutputLen

C23_Witness ==
    /\ call = "greedy_decoding"
    /\ greedy # NoneValue
    /\ model.max_output_len = 2
    /\ greedy.samples[1] = EOS_ID
    /\ greedy.hypothesis[1] = EOS_ID
    /\ greedy.hypothesis[2] # EOS_ID

\* C24: a trainable variable whose name a freeze pattern matches is modified
\* by no step or reinforce_step call, neither by the model update nor by the
\* baseline update, and every other trainable variable is among those the
\* updates are applied to: each run of an update that has a gradient for it
\* modifies it.
C24_Frozen ==
    {v \in DOMAIN variables : \E var_ \in freeze_variables : ReMatch(var_, v)}

C24_Call ==
    /\ \A v \in C24_Frozen : variables'[v] = variables[v]
    /\ \A v \in (DOMAIN variables) \ C24_Frozen :
          /\ ("updates" \in fetches' /\ Head(v) # "reward_baseline")
                => Len(variables'[v]) = Len(variables[v]) + 1
          /\ ("baseline_updates" \in fetches' /\ Head(v) = "reward_baseline")
                => Len(variables'[v]) = Len(variables[v]) + 1

C24_FrozenNeverModified ==
    /\ [][C24_Call]_vars
    /\ [](\A v \in C24_Frozen : variables[v] = <<>>)

C24_Witness ==
    /\ freeze_variables = {<<AnyParts, "proj_w">>, <<"reward_baseline">>}
    /\ model.reinforce_baseline
    /\ call = "reinforce_step"
    /\ fetches = {"loss", "baseline_loss", "updates", "baseline_updates"}
    /\ variables[<<"decoder_en", "proj_w">>] = <<>>
    /\ variables[<<"reward_baseline", "weights">>] = <<>>
    /\ variables[<<"decoder_en", "cell">>] = <<"xent_loss", "reinforce_loss">>
    /\ variables[<<"encoder_fr", "cell">>] = <<"xent_loss", "reinforce_loss">>

\* C28: over any interleaving of step, reinforce_step, greedy_decoding and
\* beam_search_decoding calls on a model built with dropout_rate > 0, every
\* run that applies a parameter update reads the keep probability
\* 1 - dropout_rate, and every sampling or inference run (the sampling pass
\* of reinforce_step, the runs of greedy and beam decoding) reads 1.
C28_Updates == {"updates", "baseline_updates"}

C28_DropoutPerRun ==
    model.dropout_rate > 0 =>
        \A r \in runs :
            IF r.fetches \cap C28_Updates # {}
            THEN r.keep_prob = ProbDenom - model.dropout_rate
            ELSE (call \in {"greedy_decoding", "beam_search_decoding"}
                    \/ "sampled_output" \in r.fetches) => r.keep_prob = ProbDenom

C28_Witness ==
    /\ model.dropout_rate > 0
    /\ call = "reinforce_step"
    /\ global_step = 2
    /\ dropout = <<ProbDenom, ProbDenom - model.dropout_rate>>
    /\ \E r \in runs :
          r.session = 2 /\ "updates" \in r.fetches
              /\ r.keep_prob = ProbDenom - model.dropout_rate
    /\ \E r \in runs :
          r.session = 2 /\ "sampled_output" \in r.fetches /\ r.keep_prob = ProbDenom

====
